---- MODULE Spec2Model ----
(***************************************************************************)
(* Model of the VOTUX backend (src/src/server.js, src/src/utils/           *)
(* encryption.js, the Ballot mongoose model): the vote submission handler, *)
(* the tally handler, and the administrative handlers that touch the same  *)
(* tables.  MySQL tables and the MongoDB collection are sets of rows; an   *)
(* HTTP handler is a process whose steps are its awaited store operations, *)
(* so that handlers interleave exactly where the event loop lets them.     *)
(* The model follows one election, E; rows of other elections appear only  *)
(* where the code can tell them apart (candidates of another election).    *)
(***************************************************************************)
EXTENDS Integers, FiniteSets, Sequences, TLC

\* ---- bounds ----
NumVoters == 2
NumVoteReqs == 2
MaxBallots == 3
NumIVs == 1
MaxInFlight == 2
MaxTime == 1
MaxCount == 3
MaxBad == 1
MaxOrdered == 4
MaxDecisions == 2
NumSeeds == 2
MaxRegistered == 1

Voters == 1..NumVoters
VoteReqs == 1..NumVoteReqs
IVs == 1..NumIVs
Times == 0..MaxTime

\* ---- fixed data of the modelled deployment ----
E == 1
OtherElection == E + 1
NULL == -1
NoName == "null"

\* rows of the elections table at start: E in the given status and the other election, a draft
InitElections(status) ==
  { [id |-> E, status |-> status], [id |-> OtherElection, status |-> "draft"] }

\* rows of the candidates table at start: two candidates of E, one of the other election
InitCandidates ==
  { [id |-> 1, election_id |-> E, name |-> "A"],
    [id |-> 2, election_id |-> E, name |-> "B"],
    [id |-> 3, election_id |-> OtherElection, name |-> "C"] }
\* candidateId values that requests carry: a candidate of E and a candidate of the other election
VoteChoices == {1, 3}
\* the candidates of E, for the runs that compare the two choices
BothChoices == {1, 2}
\* the other candidate of E: the choice of the same request in the run with exchanged choices
OtherChoice(candidateId) == IF candidateId = 1 THEN 2 ELSE 1

VARIABLES
  elections,        \* MySQL table elections: rows [id, status]
  candidates,       \* MySQL table candidates: rows [id, election_id, name]
  voting_records,   \* MySQL table voting_records: rows [voter_id, election_id, has_voted, voted_at]
  voters,           \* MySQL table voters: ids of the rows
  ballots,          \* MongoDB collection ballots
  election_results, \* MySQL table election_results
  vote,             \* POST /api/vote handlers in flight, by request slot
  tally,            \* POST /api/elections/:id/tally handler
  tally2,           \* a second tally request for the same election
  del,              \* DELETE /api/elections/:id handler position
  clock,            \* wall clock read by new Date() and NOW()
  cast,             \* history: per voter, how many ballots of the collection their requests saved
  swapped,          \* the ballots collection of the run in which the two candidates of E are exchanged
  election_decisions, \* MySQL table election_decisions: the audit log of tie-break decisions
  tb,               \* POST /api/elections/:id/tie-break handler
  proc,             \* POST /api/elections/:id/proclaim handler
  cipher,           \* a vote payload taken through encryptVote and decryptVote
  auto_increment,   \* per MySQL table, the last id its AUTO_INCREMENT counter handed out
  adm,              \* the handler of a voter or election management route in flight
  writer            \* a query write on the Ballot model, between its call and the store

vars == <<elections, candidates, voting_records, voters, ballots, election_results,
          vote, tally, tally2, del, clock, cast, swapped, election_decisions, tb, proc, cipher,
          auto_increment, adm, writer>>

\* ---- ids as texts ----
\* The ids of a request body are whatever JSON the client sent; the handler keeps them as
\* sent (electionId.toString(), candidateId.toString()).  The decimal text of an id is written
\* as the id itself, and the same digits after a leading zero ("01" for 1) as the id plus
\* PadMark
PadMark == 100
Padded(id) == id + PadMark

\* whether a property key is a canonical array index ("1", not "01")
Canonical(key) == key < PadMark

\* parseInt(text, 10), which is also the number MySQL compares the text by
ParseInt(text) == text % PadMark

\* ---- Vote Cipher (src/src/utils/encryption.js) ----
\* scrypt(ENCRYPTION_KEY, electionId): the per-election key is identified by its salt
DeriveKey(electionId) == [salt |-> electionId]

\* cipher.getAuthTag(): GCM's tag of 16 bytes
TagLength == 16

\* decipher.setAuthTag(): createDecipheriv is given no authTagLength, so a tag of any length
\* GCM allows is taken, and final() compares that many bytes
ValidTagLengths == {4, 8, 12, 13, 14, 15, 16}

\* the tag GCM computes over key, iv and plaintext
Mac(electionId, iv, voteData) == [key |-> DeriveKey(electionId), iv |-> iv, pt |-> voteData]

\* AES-256-GCM, symbolically: the ciphertext binds key, iv and plaintext, and so does the tag.
\* A tag is written as the first len bytes of a mac
encryptVote(voteData, electionId, iv) ==
  [ encryptedData |-> [key |-> DeriveKey(electionId), iv |-> iv, pt |-> voteData],
    iv |-> iv,
    authTag |-> [mac |-> Mac(electionId, iv, voteData), len |-> TagLength] ]

CryptoError == [electionId |-> NULL, candidateId |-> NULL, timestamp |-> NULL]

decryptVote(encryptedData, electionId, iv, authTag) ==
  IF /\ encryptedData.key = DeriveKey(electionId)
     /\ encryptedData.iv = iv
     /\ authTag.len \in ValidTagLengths
     /\ authTag.mac = Mac(electionId, iv, encryptedData.pt)
  THEN encryptedData.pt
  ELSE CryptoError

\* ---- Ballot model (src/unnamed/part_001) ----
\* a schema that also had a voter field: the variant the anonymity property must reject
NewBallotWithVoter(electionId, encryptedVote, voteHash, now) ==
  [ electionId |-> electionId, encryptedVote |-> encryptedVote, voteHash |-> voteHash,
    timestamp |-> now, createdAt |-> now, updatedAt |-> now, voterId |-> NULL ]

\* new Ballot({electionId, encryptedVote, voteHash}) followed by save(): timestamp is the
\* schema default Date.now, createdAt and updatedAt come from timestamps: true; the handler
\* builds the document and calls save() without an await in between, so the three carry the
\* time of that stretch (now), not the time at which the insert executes
NewBallot(electionId, encryptedVote, voteHash, now) ==
  [ electionId |-> electionId, encryptedVote |-> encryptedVote, voteHash |-> voteHash,
    timestamp |-> now, createdAt |-> now, updatedAt |-> now ]

\* ---- SQL statements of the handlers, as operators on tables ----
\* a SELECT that forgot the voter: every record of the election comes back (the variant the
\* independence property must reject)
SelectAnyVotingRecord(rows, voterId, electionId) ==
  {r \in rows : r.election_id = electionId}

\* SELECT * FROM voting_records WHERE voter_id = ? AND election_id = ?
SelectVotingRecord(rows, voterId, electionId) ==
  {r \in rows : r.voter_id = voterId /\ r.election_id = electionId}

\* SELECT * FROM elections WHERE id = ? AND (status = 'ongoing' OR status = 'active')
SelectActiveElection(rows, electionId) ==
  {e \in rows : e.id = electionId /\ e.status \in {"ongoing", "active"}}

\* SELECT * FROM candidates WHERE id = ? AND election_id = ?: the candidateId of the body is
\* compared with the INT column by number, so "01" finds candidate 1
SelectCandidate(rows, candidateId, electionId) ==
  {c \in rows : c.id = ParseInt(candidateId) /\ c.election_id = electionId}

\* UPDATE voting_records SET has_voted = TRUE, voted_at = NOW() WHERE voter_id = ? AND election_id = ?
UpdateHasVoted(rows, voterId, electionId, now) ==
  {IF r.voter_id = voterId /\ r.election_id = electionId
     THEN [r EXCEPT !.has_voted = TRUE, !.voted_at = now]
     ELSE r : r \in rows}

\* REPLACE INTO instead of INSERT IGNORE: an existing record is reset (the variant the
\* insert-if-absent property must reject)
ReplaceVotingRecord(rows, voterId, electionId, voterRows, electionRows) ==
  IF voterId \notin voterRows \/ ~(\E e \in electionRows : e.id = electionId)
  THEN rows
  ELSE {r \in rows : ~(r.voter_id = voterId /\ r.election_id = electionId)}
         \cup {[voter_id |-> voterId, election_id |-> electionId,
                has_voted |-> FALSE, voted_at |-> NULL]}

\* INSERT IGNORE INTO voting_records (voter_id, election_id, has_voted) VALUES (?, ?, FALSE)
\* (unique key (voter_id, election_id); foreign keys to voters and elections)
InsertIgnoreVotingRecord(rows, voterId, electionId, voterRows, electionRows) ==
  IF \/ SelectVotingRecord(rows, voterId, electionId) # {}
     \/ voterId \notin voterRows
     \/ ~(\E e \in electionRows : e.id = electionId)
  THEN rows
  ELSE rows \cup {[voter_id |-> voterId, election_id |-> electionId,
                   has_voted |-> FALSE, voted_at |-> NULL]}

\* DELETE FROM voting_records WHERE election_id = ? AND voter_id = ?
DeleteVotingRecord(rows, voterId, electionId) ==
  rows \ SelectVotingRecord(rows, voterId, electionId)

\* SELECT COUNT(*) FROM voting_records WHERE election_id = ? AND has_voted = TRUE
CountVoted(rows, electionId) ==
  Cardinality({r \in rows : r.election_id = electionId /\ r.has_voted})

\* INSERT INTO candidates (election_id, name, ...); id is the AUTO_INCREMENT value of the row
InsertCandidate(rows, id, electionId, name) ==
  rows \cup {[id |-> id, election_id |-> electionId, name |-> name]}

\* Ballot.find({ electionId })
FindBallots(docs, electionId) == {b \in docs : b.electionId = electionId}

\* ---- the arithmetic of the percentage (src/src/server.js 2162) ----
\* voteCount[candidateId] / ballots.length and the product with 100 are IEEE 754 doubles, and
\* toFixed(2) rounds the double it is given, not the fraction.  A natural number is written
\* as its binary digits, the least significant first; a double is m / 2^f with m of at most
\* MantissaBits digits
MantissaBits == 53

RECURSIVE Bits(_)
Bits(n) == IF n = 0 THEN <<>> ELSE <<n % 2>> \o Bits(n \div 2)

RECURSIVE Value(_)
Value(bits) == IF bits = <<>> THEN 0 ELSE Head(bits) + 2 * Value(Tail(bits))

RECURSIVE AddBits(_, _, _)
AddBits(a, b, carry) ==
  IF a = <<>> /\ b = <<>> THEN (IF carry = 0 THEN <<>> ELSE <<1>>)
  ELSE LET x == IF a = <<>> THEN 0 ELSE Head(a)
           y == IF b = <<>> THEN 0 ELSE Head(b)
       IN  <<(x + y + carry) % 2>>
             \o AddBits(IF a = <<>> THEN a ELSE Tail(a), IF b = <<>> THEN b ELSE Tail(b),
                        (x + y + carry) \div 2)

ShiftLeft(a, n) == [i \in 1..n |-> 0] \o a

\* 100 = 64 + 32 + 4
Times100(a) == AddBits(AddBits(ShiftLeft(a, 2), ShiftLeft(a, 5), 0), ShiftLeft(a, 6), 0)

\* the nearest double, ties to the even mantissa
RoundDouble(x) ==
  LET d == Len(x.m) - MantissaBits
  IN  IF d <= 0 THEN x
      ELSE LET kept == SubSeq(x.m, d + 1, Len(x.m))
               up == x.m[d] = 1 /\ (kept[1] = 1 \/ \E i \in 1..(d - 1) : x.m[i] = 1)
           IN  [m |-> IF up THEN AddBits(kept, <<1>>, 0) ELSE kept, f |-> x.f - d]

\* the digits of r / t after those of m, by long division, until the rounding is decided: two
\* digits past the mantissa, and a last digit 1 when a remainder is left
RECURSIVE Quotient(_, _, _, _)
Quotient(m, f, r, t) ==
  IF r = 0 THEN [m |-> m, f |-> f]
  ELSE IF Len(m) >= MantissaBits + 2 THEN [m |-> <<1>> \o m, f |-> f + 1]
  ELSE Quotient(IF m = <<>> /\ 2 * r < t THEN m ELSE <<(2 * r) \div t>> \o m, f + 1, (2 * r) % t, t)

\* a / b of two integers, as a double
Divide(a, b) == RoundDouble(Quotient(Bits(a \div b), 0, a % b, b))

\* x * 100, as a double
TimesHundred(x) == RoundDouble([m |-> Times100(x.m), f |-> x.f])

\* x.toFixed(2), in hundredths: the integer n nearest to x * 100, the larger of two
ToFixed2(x) ==
  LET scaled == Times100(x.m)
      sum == IF x.f = 0 THEN scaled ELSE AddBits(scaled, ShiftLeft(<<1>>, x.f - 1), 0)
  IN  Value(SubSeq(sum, x.f + 1, Len(sum)))

\* the percentages of the vaults the specifications count, computed once
KnownPercentages ==
  [total \in 1..(4 * MaxCount + MaxBad) |->
     [votes \in 0..total |-> ToFixed2(TimesHundred(Divide(votes, total)))]]

\* ((votes / ballots.length) * 100).toFixed(2), in hundredths of a percent
Percentage(votes, total) ==
  IF total \in DOMAIN KnownPercentages /\ votes \in DOMAIN KnownPercentages[total]
    THEN KnownPercentages[total][votes]
    ELSE ToFixed2(TimesHundred(Divide(votes, total)))

\* ---- tally computation (src/src/server.js 2123-2172) ----
\* JSON.parse(ballot.encryptedVote), then decryptVote under the tally's electionId
DecryptBallot(b, electionId) ==
  decryptVote(b.encryptedVote.encryptedData, electionId, b.encryptedVote.iv, b.encryptedVote.authTag)

\* a loop that gives up at the first failure: the variant the local recovery must reject
DecryptableOrNone(docs, electionId) ==
  IF \E b \in docs : DecryptBallot(b, electionId) = CryptoError THEN {} ELSE docs

\* the ballots whose decryption does not throw
Decryptable(docs, electionId) == {b \in docs : DecryptBallot(b, electionId) # CryptoError}

\* voteCount[candidateId] after the loop: only candidates seen on a decrypted ballot have a key
VoteCount(docs, electionId) ==
  LET ok == Decryptable(docs, electionId)
  IN  [c \in {DecryptBallot(b, electionId).candidateId : b \in ok} |->
         Cardinality({b \in ok : DecryptBallot(b, electionId).candidateId = c})]

\* Object.keys(voteCount): keys that are canonical integers come in ascending numeric order
RECURSIVE KeysOrder(_)
KeysOrder(S) ==
  IF S = {} THEN <<>>
  ELSE LET m == CHOOSE x \in S : \A y \in S : x <= y IN <<m>> \o KeysOrder(S \ {m})


\* candidateMap[candidateId] || 'Candidat inconnu'
CandidateName(rows, candidateId, electionId) ==
  LET hits == {c \in rows : c.election_id = electionId /\ c.id = candidateId}
  IN  IF hits = {} THEN "Candidat inconnu" ELSE (CHOOSE c \in hits : TRUE).name

\* results.sort((a, b) => b.votes - a.votes): stable, so equal votes keep their order
RECURSIVE InsertByVotes(_, _)
InsertByVotes(sorted, x) ==
  IF sorted = <<>> THEN <<x>>
  ELSE IF Head(sorted).votes >= x.votes THEN <<Head(sorted)>> \o InsertByVotes(Tail(sorted), x)
  ELSE <<x>> \o sorted

\* results left in key order: the variant the tie rule must reject
SortByVotesForgotten(list) == list

RECURSIVE SortByVotes(_)
SortByVotes(list) ==
  IF list = <<>> THEN <<>>
  ELSE InsertByVotes(SortByVotes(SubSeq(list, 1, Len(list) - 1)), list[Len(list)])

NoEntry == [candidateId |-> NULL, candidateName |-> NoName, votes |-> 0, percentage |-> 0]

FilterSeq(list, top) == SelectSeq(list, LAMBDA r : r.votes = top)

\* the keys of voteCount in the order the loop creates them: the candidate of each decrypted
\* ballot at its first appearance
RECURSIVE InsertedAmong(_, _, _)
InsertedAmong(order, ok, electionId) ==
  IF order = <<>> THEN <<>>
  ELSE LET before == InsertedAmong(SubSeq(order, 1, Len(order) - 1), ok, electionId)
           last == order[Len(order)]
       IN  IF last \notin ok THEN before
           ELSE IF \E i \in 1..Len(before) : before[i] = DecryptBallot(last, electionId).candidateId
             THEN before
           ELSE Append(before, DecryptBallot(last, electionId).candidateId)

InsertedKeys(order, electionId) ==
  InsertedAmong(order, Decryptable({order[i] : i \in 1..Len(order)}, electionId), electionId)

\* keys enumerated as they were inserted: the variant the order-independent tally must reject
KeysAsInserted(inserted) == inserted

\* Object.keys(voteCount) on keys inserted in the given order: the canonical array indexes in
\* ascending numeric order, then the other string keys in the order they were inserted
ObjectKeys(inserted) ==
  KeysOrder({inserted[i] : i \in {j \in 1..Len(inserted) : Canonical(inserted[j])}})
    \o SelectSeq(inserted, LAMBDA key : ~Canonical(key))

\* everything the handler computes between the consistency check and the upsert, on ballots
\* that Ballot.find returned in the given order
TallyInOrder(order, candidateRows, electionId) ==
  LET docs == {order[i] : i \in 1..Len(order)}
      count == VoteCount(docs, electionId)
      keys == ObjectKeys(InsertedKeys(order, electionId))
      total == Len(order)
      unsorted == [i \in 1..Len(keys) |->
                     [candidateId |-> keys[i],
                      candidateName |-> CandidateName(candidateRows, keys[i], electionId),
                      votes |-> count[keys[i]],
                      percentage |-> Percentage(count[keys[i]], total)]]
      results == SortByVotes(unsorted)
      topVotes == IF Len(results) > 0 THEN results[1].votes ELSE 0
      tiedCandidates == FilterSeq(results, topVotes)
      tie == Len(tiedCandidates) > 1 /\ topVotes > 0
  IN  [ totalVotes |-> total,
        decryptedVotes |-> Cardinality(Decryptable(docs, electionId)),
        failedDecryptions |-> total - Cardinality(Decryptable(docs, electionId)),
        results |-> results, tie |-> tie, tiedCandidates |-> tiedCandidates,
        winner |-> IF tie \/ Len(results) = 0 THEN NoEntry ELSE results[1] ]

\* documents one after the other, by voteHash
RECURSIVE ByHash(_)
ByHash(docs) ==
  IF docs = {} THEN <<>>
  ELSE LET b == CHOOSE x \in docs : \A y \in docs : x.voteHash <= y.voteHash
       IN  <<b>> \o ByHash(docs \ {b})

\* the documents with the ballots of each candidate of first together, candidate after
\* candidate, and the remaining documents after them
RECURSIVE CandidateFirst(_, _, _)
CandidateFirst(first, docs, electionId) ==
  IF first = <<>> THEN ByHash(docs)
  ELSE LET mine == {b \in Decryptable(docs, electionId) :
                      DecryptBallot(b, electionId).candidateId = Head(first)}
       IN  ByHash(mine) \o CandidateFirst(Tail(first), docs \ mine, electionId)

\* Ballot.find({ electionId }) has no sort: the documents come in whatever order the
\* collection returns.  The loop depends on that order through the order in which the
\* candidates first appear only, so one order of the documents stands for all those with the
\* same first appearances
FindOrders(docs, electionId) ==
  LET keys == DOMAIN VoteCount(docs, electionId)
      firsts == {first \in [1..Cardinality(keys) -> keys] :
                   \A i, j \in 1..Cardinality(keys) : first[i] = first[j] => i = j}
  IN  {CandidateFirst(first, docs, electionId) : first \in firsts}

\* what the handler can compute on the ballots it read
TallyResults(docs, candidateRows, electionId) ==
  {TallyInOrder(order, candidateRows, electionId) : order \in FindOrders(docs, electionId)}

NoResult == TallyInOrder(<<>>, {}, E)

\* an upsert that stores the top entry as winner whatever the tie flag says: the variant the
\* tie rule of stored snapshots must reject
UpsertResultTopWinner(rows, electionId, out) ==
  LET top == IF Len(out.results) = 0 THEN NoEntry ELSE out.results[1]
      row == [ election_id |-> electionId, total_votes |-> out.totalVotes,
               results_json |-> [list |-> out.results, tie |-> out.tie,
                                 tiedCandidates |-> out.tiedCandidates],
               winner_id |-> top.candidateId, winner_name |-> top.candidateName,
               proclaimed |-> FALSE, proclaimed_at |-> NULL, decisions_before |-> 0 ]
  IN  {x \in rows : x.election_id # electionId} \cup {row}

\* INSERT INTO election_results ... ON DUPLICATE KEY UPDATE total_votes, results_json, winner_id, winner_name
\* (decisions_before is history: the size of the decision log when the tally wrote the row)
UpsertResult(rows, electionId, out) ==
  LET old == {x \in rows : x.election_id = electionId}
      row == [ election_id |-> electionId, total_votes |-> out.totalVotes,
               results_json |-> [list |-> out.results, tie |-> out.tie,
                                 tiedCandidates |-> out.tiedCandidates],
               winner_id |-> IF out.winner.candidateId = NULL THEN NULL
                             ELSE ParseInt(out.winner.candidateId),
               winner_name |-> out.winner.candidateName,
               proclaimed |-> FALSE, proclaimed_at |-> NULL, decisions_before |-> 0 ]
  IN  IF old = {} THEN rows \cup {row}
      ELSE {IF x.election_id = electionId
              THEN [row EXCEPT !.proclaimed = x.proclaimed, !.proclaimed_at = x.proclaimed_at]
              ELSE x : x \in rows}

\* ---- request slots ----
IdleVote ==
  [ pc |-> "idle", voterId |-> NULL, electionId |-> NULL, candidateId |-> NULL, voteHash |-> NULL,
    now |-> NULL, afterCommit |-> FALSE, refused |-> "none", res |-> "none" ]

IdleTally ==
  [ pc |-> "idle", ballots |-> {}, mysqlVotes |-> NULL, mongoVotes |-> NULL, out |-> NoResult,
    doubled |-> FALSE, afterOrphan |-> FALSE, res |-> "none" ]

\* no request: what the slot's history field sent holds between requests
NoRequest ==
  [userType |-> "none", id |-> NULL, action |-> "none", candidateIds |-> <<>>,
   chosenCandidateId |-> NULL]

\* (sent and openTie are history: the request as it was sent, and whether the snapshot was
\* tied without a winner when it came)
IdleTieBreak ==
  [ pc |-> "idle", action |-> "undefined", candidateIds |-> <<>>, winnerId |-> NULL,
    winnerName |-> NoName, newElectionId |-> NULL, toCopy |-> <<>>, seed |-> NULL,
    index |-> NULL, openTie |-> FALSE, sent |-> NoRequest, res |-> "none" ]

IdleProclaim == [pc |-> "idle", res |-> "none"]

\* no call of the cipher under way
NoBox == encryptVote(CryptoError, NULL, NULL)
IdleCipher ==
  [ pc |-> "idle", voteData |-> CryptoError, electionId |-> NULL, iv |-> NULL, box |-> NoBox,
    given |-> [electionId |-> NULL, iv |-> NULL, authTag |-> NoBox.authTag], res |-> CryptoError ]

\* submissions that may still save a ballot
Saving == {r \in VoteReqs : vote[r].pc \in {"selRecord", "selElection", "selCandidate", "save"}}

\* the vault is let to grow to MaxBallots ballots: a submission is taken only while the
\* ballots stored and those still to be saved stay within that
RoomInVault == Cardinality(ballots) + Cardinality(Saving) < MaxBallots

\* no query write under way
IdleWriter == [pc |-> "idle", voteHash |-> NULL, candidateId |-> NULL, now |-> NULL]

\* no voter or election management request under way
IdleAdmin == [pc |-> "idle", voterId |-> NULL, electionId |-> NULL, toInsert |-> <<>>]

\* the AUTO_INCREMENT counters of a deployment whose tables were filled in id order: the last
\* id of each table that has one (the elections table has had E and the other election)
LastIds(candidateRows, voterRows) ==
  LET last(ids) == IF ids = {} THEN 0 ELSE CHOOSE m \in ids : \A x \in ids : x <= m
  IN  [ elections |-> OtherElection, candidates |-> last({c.id : c \in candidateRows}),
        voters |-> last(voterRows), election_decisions |-> 0 ]

\* handlers between their first step and the end of their response
InFlight ==
  Cardinality({r \in VoteReqs : vote[r].pc # "idle"})
    + (IF tally.pc # "idle" THEN 1 ELSE 0) + (IF tally2.pc # "idle" THEN 1 ELSE 0)
    + (IF del # "idle" THEN 1 ELSE 0)
    + (IF tb.pc # "idle" THEN 1 ELSE 0) + (IF proc.pc # "idle" THEN 1 ELSE 0)
    + (IF adm.pc # "idle" THEN 1 ELSE 0)

Init ==
  /\ elections = InitElections("draft")
  /\ candidates = InitCandidates
  /\ voting_records = {}
  /\ voters = Voters
  /\ ballots = {}
  /\ election_results = {}
  /\ vote = [r \in VoteReqs |-> IdleVote]
  /\ tally = IdleTally
  /\ tally2 = IdleTally
  /\ del = "idle"
  /\ clock = 0
  /\ cast = [v \in Voters |-> 0]
  /\ swapped = {}
  /\ election_decisions = {}
  /\ tb = IdleTieBreak
  /\ proc = IdleProclaim
  /\ cipher = IdleCipher
  /\ auto_increment = LastIds(candidates, voters)
  /\ adm = IdleAdmin
  /\ writer = IdleWriter

\* ---- POST /api/vote (src/src/server.js 1984-2082), one step per awaited store operation ----
VoteLocals ==
  <<voters, candidates, elections, election_results, tally, tally2, del, clock,
    election_decisions, tb, proc, cipher,
    auto_increment, adm, writer>>

\* the handler of slot r sends its response and returns; voteHash is the handler's variable
\* of that name, the receipt of a success
Finish(r, kind, voteHash) ==
  vote' = [vote EXCEPT ![r] = [IdleVote EXCEPT !.pc = "done", !.res = kind,
                                 !.voterId = vote[r].voterId, !.voteHash = voteHash]]

\* a submission of this voter has answered with a receipt and the voter's record is marked
Committed(voterId) ==
  /\ \E q \in VoteReqs :
       vote[q].pc = "done" /\ vote[q].res = "Receipt" /\ vote[q].voterId = voterId
  /\ \E row \in SelectVotingRecord(voting_records, voterId, E) : row.has_voted

\* a request whose ballot was saved and whose mark-voted write failed
Orphaned ==
  \E q \in VoteReqs : vote[q].pc = "done" /\ vote[q].res = "PersistenceError" /\ vote[q].voteHash # NULL

Continue(r, pc) == vote' = [vote EXCEPT ![r].pc = pc]

\* the request passes voteLimiter and authenticateToken; req.user.id and the body are read
VoteBegin(r, voterId, candidateId) ==
  /\ vote[r].pc = "idle"
  /\ InFlight < MaxInFlight
  /\ RoomInVault
  /\ vote' = [vote EXCEPT ![r] = [IdleVote EXCEPT !.pc = "selRecord", !.voterId = voterId,
                !.electionId = E, !.candidateId = candidateId,
                !.afterCommit = Committed(voterId)]]
  /\ UNCHANGED <<voting_records, ballots, cast, swapped>>
  /\ UNCHANGED VoteLocals

\* the same request with electionId sent as the election's digits after a leading zero.
\* MySQL compares the text with its INT columns by number, so the statements of the handler
\* are those of election E; the cipher and the Ballot model receive the text as sent
VoteBeginPadded(r, voterId, candidateId) ==
  /\ vote[r].pc = "idle"
  /\ InFlight < MaxInFlight
  /\ RoomInVault
  /\ vote' = [vote EXCEPT ![r] = [IdleVote EXCEPT !.pc = "selRecord", !.voterId = voterId,
                !.electionId = Padded(E), !.candidateId = candidateId,
                !.afterCommit = Committed(voterId)]]
  /\ UNCHANGED <<voting_records, ballots, cast, swapped>>
  /\ UNCHANGED VoteLocals

\* what the eligibility check answers from the ledger: 403 when no row, 400 when has_voted,
\* otherwise the handler goes on
EligibilityAnswer(rows, voterId) ==
  LET found == SelectVotingRecord(rows, voterId, E)
  IN  IF found = {} THEN "Ineligible"
      ELSE IF \E row \in found : row.has_voted THEN "AlreadyVoted"
      ELSE "pass"

\* a handler that looks at the election's status before the voter's record: the variant the
\* order of the checks must reject
VoteCheckElectionFirst(r) ==
  /\ vote[r].pc = "selRecord"
  /\ LET answer == EligibilityAnswer(voting_records, vote[r].voterId)
     IN  IF SelectActiveElection(elections, E) = {} THEN Finish(r, "ElectionNotActive", NULL)
         ELSE IF answer = "pass" THEN Continue(r, "selElection") ELSE Finish(r, answer, NULL)
  /\ UNCHANGED <<voting_records, ballots, cast, swapped>>
  /\ UNCHANGED VoteLocals

\* SELECT voting_records; 403 when no row, 400 when has_voted
VoteCheckEligibility(r) ==
  /\ vote[r].pc = "selRecord"
  /\ LET answer == EligibilityAnswer(voting_records, vote[r].voterId)
     IN  IF answer = "pass" THEN Continue(r, "selElection") ELSE Finish(r, answer, NULL)
  /\ UNCHANGED <<voting_records, ballots, cast, swapped>>
  /\ UNCHANGED VoteLocals

\* SELECT elections WHERE status active or ongoing; 400 when none
VoteCheckElection(r) ==
  /\ vote[r].pc = "selElection"
  /\ IF SelectActiveElection(elections, E) = {}
       THEN Finish(r, "ElectionNotActive", NULL)
       ELSE Continue(r, "selCandidate")
  /\ UNCHANGED <<voting_records, ballots, cast, swapped>>
  /\ UNCHANGED VoteLocals

\* SELECT candidates WHERE id and election_id; 400 when none.  With a candidate found the
\* handler runs on without an await up to ballot.save(): new Date() of the payload (2044),
\* the Date.now of the Ballot's timestamp (2058) and the times save() stamps (2064) are read
\* here
VoteCheckCandidate(r) ==
  /\ vote[r].pc = "selCandidate"
  /\ IF SelectCandidate(candidates, vote[r].candidateId, E) = {}
       THEN Finish(r, "InvalidCandidate", NULL)
       ELSE vote' = [vote EXCEPT ![r].pc = "save", ![r].now = clock]
  /\ UNCHANGED <<voting_records, ballots, cast, swapped>>
  /\ UNCHANGED VoteLocals

\* the ballot the handler builds: voteData, encryptVote, generateVoteHash, new Ballot, all
\* from electionId.toString(); now is the time the handler read
BuildBallotAs(electionId, candidateId, iv, voteHash, now) ==
  NewBallot(electionId,
            encryptVote([electionId |-> electionId, candidateId |-> candidateId, timestamp |-> now],
                        electionId, iv),
            voteHash, now)

BuildBallot(candidateId, iv, voteHash, now) == BuildBallotAs(E, candidateId, iv, voteHash, now)

\* a save that overwrites the ballot stored under the same voteHash: the variant the
\* append-only property must reject
SaveBallotOverwriting(docs, ballot) ==
  {b \in docs : b.voteHash # ballot.voteHash} \cup {ballot}

\* ballot.save(): the insert is refused on a voteHash already in the collection (unique index)
SaveBallot(docs, ballot) ==
  IF \E b \in docs : b.voteHash = ballot.voteHash THEN docs ELSE docs \cup {ballot}

\* generateVoteHash: sha256 over 8 random bytes, so any digest can come out: one that a stored
\* ballot has, or a new one.  Digests are interchangeable names: a digest not in the
\* collection is written as the least value no stored ballot has
PossibleHashes(docs) ==
  LET used == {b.voteHash : b \in docs}
      free == 1..(Cardinality(used) + 1) \ used
  IN  used \cup {CHOOSE h \in free : \A g \in free : h <= g}

\* a handler that saved the ballot before the cipher's error surfaced: the variant the
\* nothing-persisted property must reject
VoteEncryptFailsAfterSave(r) ==
  /\ vote[r].pc = "save"
  /\ ballots' = ballots \cup {BuildBallot(vote[r].candidateId, 1, MaxBallots, vote[r].now)}
  /\ Finish(r, "CryptoError", NULL)
  /\ UNCHANGED <<voting_records, cast, swapped>>
  /\ UNCHANGED VoteLocals

\* encryptVote throws: the error propagates, nothing was written
VoteEncryptFails(r) ==
  /\ vote[r].pc = "save"
  /\ Finish(r, "CryptoError", NULL)
  /\ UNCHANGED <<voting_records, ballots, cast, swapped>>
  /\ UNCHANGED VoteLocals

\* the insert of ballot.save() for the ballot the handler built and stamped in the step
\* before (the iv and the digest, random, are drawn here); a refused or failed save
\* propagates as an error.
\* The slot keeps why the save wrote nothing: the unique index refused the voteHash
\* ("duplicate") or the store failed ("store")
VoteSaveBallot(r) ==
  /\ vote[r].pc = "save"
  /\ \E iv \in IVs, h \in PossibleHashes(ballots), storeUp \in BOOLEAN :
       LET ballot == BuildBallotAs(vote[r].electionId, vote[r].candidateId, iv, h, vote[r].now)
           saved == IF storeUp THEN SaveBallot(ballots, ballot) ELSE ballots
       IN  /\ ballots' = saved
           /\ IF saved # ballots
                THEN /\ vote' = [vote EXCEPT ![r].pc = "mark", ![r].voteHash = h,
                                             ![r].candidateId = NULL, ![r].now = NULL]
                     /\ cast' = [cast EXCEPT ![vote[r].voterId] = @ + 1]
                     /\ swapped' = swapped \cup
                          {BuildBallotAs(vote[r].electionId, OtherChoice(vote[r].candidateId), iv,
                                         h, vote[r].now)}
                ELSE /\ vote' = [vote EXCEPT ![r] =
                                [IdleVote EXCEPT !.pc = "done", !.res = "PersistenceError",
                                   !.voterId = vote[r].voterId,
                                   !.refused = IF storeUp THEN "duplicate" ELSE "store"]]
                     /\ UNCHANGED <<cast, swapped>>
  /\ UNCHANGED voting_records
  /\ UNCHANGED VoteLocals

\* UPDATE voting_records SET has_voted = TRUE; the number of rows changed is not looked at
VoteMarkVoted(r) ==
  /\ vote[r].pc = "mark"
  /\ voting_records' = UpdateHasVoted(voting_records, vote[r].voterId, E, clock)
  /\ Finish(r, "Receipt", vote[r].voteHash)
  /\ UNCHANGED <<ballots, cast, swapped>>
  /\ UNCHANGED VoteLocals

\* the UPDATE throws (connection lost): the error propagates, the saved ballot stays
VoteMarkFails(r) ==
  /\ vote[r].pc = "mark"
  /\ Finish(r, "PersistenceError", vote[r].voteHash)
  /\ UNCHANGED <<voting_records, ballots, cast, swapped>>
  /\ UNCHANGED VoteLocals

\* the response has left; the slot is free for the next request
VoteEnd(r) ==
  /\ vote[r].pc = "done"
  /\ vote' = [vote EXCEPT ![r] = IdleVote]
  /\ UNCHANGED <<voting_records, ballots, cast, swapped>>
  /\ UNCHANGED VoteLocals

SubmitVote(r, choices) ==
  \/ \E v \in Voters, c \in choices : VoteBegin(r, v, c)
  \/ VoteCheckEligibility(r)
  \/ VoteCheckElection(r)
  \/ VoteCheckCandidate(r)
  \/ VoteEncryptFails(r)
  \/ VoteSaveBallot(r)
  \/ VoteMarkVoted(r)
  \/ VoteMarkFails(r)
  \/ VoteEnd(r)

\* ---- administrative handlers ----
ManagementFrame ==
  <<ballots, election_results, vote, tally, tally2, del, clock, cast, swapped, election_decisions,
    tb, proc, cipher, writer>>

AdminFrame == <<ManagementFrame, auto_increment, adm>>

\* POST /api/elections/:id/eligible-voters, one voterId of the list
AddEligible(voterId) ==
  /\ voting_records' = InsertIgnoreVotingRecord(voting_records, voterId, E, voters, elections)
  /\ voting_records' # voting_records
  /\ UNCHANGED <<elections, candidates, voters>>
  /\ UNCHANGED AdminFrame

\* DELETE /api/elections/:id/eligible-voters/:voterId: the route registered first (1253-1266)
\* answers every request; it deletes whatever has_voted says
RemoveEligible(voterId) ==
  /\ SelectVotingRecord(voting_records, voterId, E) # {}
  /\ voting_records' = DeleteVotingRecord(voting_records, voterId, E)
  /\ UNCHANGED <<elections, candidates, voters>>
  /\ UNCHANGED AdminFrame

\* DELETE /api/voters/:id (src/src/server.js 1236-1250), first statement:
\* DELETE FROM voting_records WHERE voter_id = ?
DeleteVoterRecords(voterId) ==
  /\ adm.pc = "idle"
  /\ InFlight < MaxInFlight
  /\ voting_records' = {r \in voting_records : r.voter_id # voterId}
  /\ adm' = [IdleAdmin EXCEPT !.pc = "delVoter", !.voterId = voterId]
  /\ UNCHANGED <<elections, candidates, voters, auto_increment>>
  /\ UNCHANGED ManagementFrame

\* second statement: DELETE FROM voters WHERE id = ?.  The foreign key of voting_records
\* refuses it when a record of the voter was inserted meanwhile, and the statement can throw:
\* the handler then answers 500 and the voter stays, the records of the first statement gone
DeleteVoterRow ==
  /\ adm.pc = "delVoter"
  /\ \E storeUp \in BOOLEAN :
       voters' = IF storeUp /\ ~(\E r \in voting_records : r.voter_id = adm.voterId)
                   THEN voters \ {adm.voterId}
                   ELSE voters
  /\ adm' = IdleAdmin
  /\ UNCHANGED <<elections, candidates, voting_records, auto_increment>>
  /\ UNCHANGED ManagementFrame

DeleteVoter ==
  \/ \E v \in Voters : DeleteVoterRecords(v)
  \/ DeleteVoterRow

\* UPDATE elections SET status = ? WHERE id = ?
SetStatus(rows, electionId, status) ==
  {IF e.id = electionId THEN [e EXCEPT !.status = status] ELSE e : e \in rows}

\* POST /api/elections/:id/start
StartElection ==
  /\ \E e \in elections : e.id = E /\ e.status # "active"
  /\ elections' = SetStatus(elections, E, "active")
  /\ UNCHANGED <<candidates, voting_records, voters>>
  /\ UNCHANGED AdminFrame

\* POST /api/elections/:id/close
CloseElection ==
  /\ \E e \in elections : e.id = E /\ e.status # "completed"
  /\ elections' = SetStatus(elections, E, "completed")
  /\ UNCHANGED <<candidates, voting_records, voters>>
  /\ UNCHANGED AdminFrame

Admin ==
  \/ \E v \in Voters : AddEligible(v)
  \/ \E v \in Voters : RemoveEligible(v)
  \/ DeleteVoter
  \/ StartElection
  \/ CloseElection

\* ---- the routes that create voters and elections ----
\* POST /api/voters (src/src/server.js 1450-1518): INSERT INTO voters; assignElectionId is the
\* election of the body, NULL when the body has none
CreateVoterRow(assignElectionId) ==
  /\ adm.pc = "idle"
  /\ InFlight < MaxInFlight
  /\ auto_increment.voters < NumVoters + MaxRegistered
  /\ voters' = voters \cup {auto_increment.voters + 1}
  /\ auto_increment' = [auto_increment EXCEPT !.voters = @ + 1]
  /\ adm' = IF assignElectionId = NULL THEN IdleAdmin
            ELSE [IdleAdmin EXCEPT !.pc = "assign", !.voterId = auto_increment.voters + 1,
                                   !.electionId = assignElectionId]
  /\ UNCHANGED <<elections, candidates, voting_records>>
  /\ UNCHANGED ManagementFrame

\* INSERT IGNORE INTO voting_records for the new voter; when the statement throws the handler
\* answers 500 and the voter stays without a record
CreateVoterAssign ==
  /\ adm.pc = "assign"
  /\ \E storeUp \in BOOLEAN :
       voting_records' =
         IF storeUp
           THEN InsertIgnoreVotingRecord(voting_records, adm.voterId, adm.electionId, voters,
                                         elections)
           ELSE voting_records
  /\ adm' = IdleAdmin
  /\ UNCHANGED <<elections, candidates, voters, auto_increment>>
  /\ UNCHANGED ManagementFrame

CreateVoter ==
  \/ \E e \in {NULL, E} : CreateVoterRow(e)
  \/ CreateVoterAssign

\* POST /api/voters/import-csv (src/src/server.js 756-892), one row of the file with a
\* matricule no voter has: INSERT INTO voters
ImportCsvRow ==
  /\ auto_increment.voters < NumVoters + MaxRegistered
  /\ voters' = voters \cup {auto_increment.voters + 1}
  /\ auto_increment' = [auto_increment EXCEPT !.voters = @ + 1]
  /\ UNCHANGED <<elections, candidates, voting_records, adm>>
  /\ UNCHANGED ManagementFrame

\* the candidates a body of POST /api/elections carries
NewCandidates == {<<>>, <<"A", "B">>}

\* POST /api/elections (src/src/server.js 1787-1835): INSERT INTO elections, status 'draft'
CreateElectionRow(names) ==
  /\ adm.pc = "idle"
  /\ InFlight < MaxInFlight
  /\ auto_increment.elections < OtherElection + MaxRegistered
  /\ elections' = elections \cup {[id |-> auto_increment.elections + 1, status |-> "draft"]}
  /\ auto_increment' = [auto_increment EXCEPT !.elections = @ + 1]
  /\ adm' = IF names = <<>> THEN IdleAdmin
            ELSE [IdleAdmin EXCEPT !.pc = "insCandidate",
                                   !.electionId = auto_increment.elections + 1,
                                   !.toInsert = names]
  /\ UNCHANGED <<candidates, voting_records, voters>>
  /\ UNCHANGED ManagementFrame

\* one INSERT INTO candidates of the loop; when it throws the handler answers 500 and the
\* election stays with the candidates inserted so far
CreateElectionCandidate ==
  /\ adm.pc = "insCandidate"
  /\ \E storeUp \in BOOLEAN :
       IF storeUp
         THEN /\ candidates' = InsertCandidate(candidates, auto_increment.candidates + 1,
                                               adm.electionId, Head(adm.toInsert))
              /\ auto_increment' = [auto_increment EXCEPT !.candidates = @ + 1]
              /\ adm' = IF Len(adm.toInsert) = 1 THEN IdleAdmin
                        ELSE [adm EXCEPT !.toInsert = Tail(adm.toInsert)]
         ELSE /\ adm' = IdleAdmin
              /\ UNCHANGED <<candidates, auto_increment>>
  /\ UNCHANGED <<elections, voting_records, voters>>
  /\ UNCHANGED ManagementFrame

CreateElection ==
  \/ \E names \in NewCandidates : CreateElectionRow(names)
  \/ CreateElectionCandidate

Registrar ==
  \/ CreateVoter
  \/ ImportCsvRow
  \/ CreateElection

\* ---- POST /api/elections/:id/tally (src/src/server.js 2085-2255) ----
TallyStores ==
  <<elections, candidates, voting_records, voters, ballots, vote, del, clock, cast, swapped,
    election_decisions, tb, proc, cipher,
    auto_increment, adm, writer>>

TallyFrame == <<TallyStores, tally2>>

\* the frame of the second request
OtherTallyFrame == <<TallyStores, tally>>

\* Ballot.find({ electionId })
TallyFindAt(run, after) ==
  /\ run.pc = "idle"
  /\ InFlight < MaxInFlight
  /\ after = [IdleTally EXCEPT !.pc = "count", !.ballots = FindBallots(ballots, E),
                !.doubled = (\E v \in Voters : cast[v] > 1), !.afterOrphan = Orphaned]
  /\ UNCHANGED election_results

TallyFind == TallyFindAt(tally, tally') /\ UNCHANGED TallyFrame

\* a comparison that lets every pair of counts through: the variant the hard-stop property
\* must reject
ConsistencyCheckLoose(mysqlVoteCount, mongoVoteCount) == TRUE

\* SELECT COUNT(*) of the voted records and the comparison with ballots.length
ConsistencyCheck(mysqlVoteCount, mongoVoteCount) == mysqlVoteCount = mongoVoteCount

\* a mismatch answers 500 with both counts; otherwise the ballots are decrypted and counted
TallyCheckConsistencyAt(run, after) ==
  /\ run.pc = "count"
  /\ LET mysqlVoteCount == CountVoted(voting_records, E)
         mongoVoteCount == Cardinality(run.ballots)
     IN  after = IF ConsistencyCheck(mysqlVoteCount, mongoVoteCount)
                   THEN [run EXCEPT !.pc = "names", !.mysqlVotes = mysqlVoteCount,
                                    !.mongoVotes = mongoVoteCount]
                   ELSE [run EXCEPT !.pc = "done", !.res = "ConsistencyError", !.ballots = {},
                                    !.mysqlVotes = mysqlVoteCount,
                                    !.mongoVotes = mongoVoteCount]
  /\ UNCHANGED election_results

TallyCheckConsistency == TallyCheckConsistencyAt(tally, tally') /\ UNCHANGED TallyFrame

\* SELECT id, name FROM candidates; results, tie and winner are computed
TallySelectCandidatesAt(run, after) ==
  /\ run.pc = "names"
  /\ \E out \in TallyResults(run.ballots, candidates, E) :
       after = [run EXCEPT !.pc = "upsert", !.ballots = {}, !.out = out]
  /\ UNCHANGED election_results

TallySelectCandidates == TallySelectCandidatesAt(tally, tally') /\ UNCHANGED TallyFrame

\* the upsert; an error of it is caught and logged, and the success response is sent either way
TallyUpsertAt(run, after) ==
  /\ run.pc = "upsert"
  /\ \E storeUp \in BOOLEAN :
       election_results' =
         IF storeUp
           THEN {IF x.election_id = E
                   THEN [x EXCEPT !.decisions_before = Cardinality(election_decisions)]
                   ELSE x : x \in UpsertResult(election_results, E, run.out)}
           ELSE election_results
  /\ after = [run EXCEPT !.pc = "done", !.res = "ok"]

TallyUpsert == TallyUpsertAt(tally, tally') /\ UNCHANGED TallyFrame

\* the response has left
TallyEndAt(run, after) ==
  /\ run.pc = "done"
  /\ after = IdleTally
  /\ UNCHANGED election_results

TallyEnd == TallyEndAt(tally, tally') /\ UNCHANGED TallyFrame

RunTally ==
  \/ TallyFind
  \/ TallyCheckConsistency
  \/ TallySelectCandidates
  \/ TallyUpsert
  \/ TallyEnd

\* a second request for the same election: the route takes no lock, so its awaits interleave
\* with those of the first
OtherTallyFind == TallyFindAt(tally2, tally2') /\ UNCHANGED OtherTallyFrame

OtherTallyCheckConsistency == TallyCheckConsistencyAt(tally2, tally2') /\ UNCHANGED OtherTallyFrame

OtherTallySelectCandidates == TallySelectCandidatesAt(tally2, tally2') /\ UNCHANGED OtherTallyFrame

OtherTallyUpsert == TallyUpsertAt(tally2, tally2') /\ UNCHANGED OtherTallyFrame

OtherTallyEnd == TallyEndAt(tally2, tally2') /\ UNCHANGED OtherTallyFrame

RunOtherTally ==
  \/ OtherTallyFind
  \/ OtherTallyCheckConsistency
  \/ OtherTallySelectCandidates
  \/ OtherTallyUpsert
  \/ OtherTallyEnd

\* ---- DELETE /api/elections/:id (src/src/server.js 1339-1369) ----
DelFrame == <<voters, vote, tally, tally2, clock, election_decisions, tb, proc, cipher,
    auto_increment, adm, writer>>

\* SELECT id FROM elections: 404 when the election is gone
DeleteElectionBegin ==
  /\ del = "idle"
  /\ InFlight < MaxInFlight
  /\ \E e \in elections : e.id = E
  /\ del' = "records"
  /\ UNCHANGED <<elections, candidates, voting_records, ballots, election_results, cast, swapped>>
  /\ UNCHANGED DelFrame

\* DELETE FROM voting_records WHERE election_id = ?
DeleteElectionRecords ==
  /\ del = "records"
  /\ voting_records' = {r \in voting_records : r.election_id # E}
  /\ del' = "candidates"
  /\ UNCHANGED <<elections, candidates, ballots, election_results, cast, swapped>>
  /\ UNCHANGED DelFrame

\* DELETE FROM candidates WHERE election_id = ?
DeleteElectionCandidates ==
  /\ del = "candidates"
  /\ candidates' = {c \in candidates : c.election_id # E}
  /\ del' = "results"
  /\ UNCHANGED <<elections, voting_records, ballots, election_results, cast, swapped>>
  /\ UNCHANGED DelFrame

\* DELETE FROM election_results WHERE election_id = ?
DeleteElectionResults ==
  /\ del = "results"
  /\ election_results' = {x \in election_results : x.election_id # E}
  /\ del' = "election"
  /\ UNCHANGED <<elections, candidates, voting_records, ballots, cast, swapped>>
  /\ UNCHANGED DelFrame

\* DELETE FROM elections WHERE id = ?: refused by the foreign key of voting_records when a
\* record of the election was inserted meanwhile; the handler then answers 500
DeleteElectionRow ==
  /\ del = "election"
  /\ IF \E r \in voting_records : r.election_id = E
       THEN /\ elections' = elections
            /\ del' = "idle"
       ELSE /\ elections' = {e \in elections : e.id # E}
            /\ del' = "ballots"
  /\ UNCHANGED <<candidates, voting_records, ballots, election_results, cast, swapped>>
  /\ UNCHANGED DelFrame

\* Ballot.deleteMany({ electionId }); a failure is logged and the handler answers success
DeleteElectionBallots ==
  /\ del = "ballots"
  /\ \E storeUp \in BOOLEAN :
       IF storeUp
         THEN /\ ballots' = ballots \ FindBallots(ballots, E)
              /\ cast' = [v \in Voters |-> 0]
              /\ swapped' = swapped \ FindBallots(swapped, E)
         ELSE UNCHANGED <<ballots, cast, swapped>>
  /\ del' = "idle"
  /\ UNCHANGED <<elections, candidates, voting_records, election_results>>
  /\ UNCHANGED DelFrame

DeleteElection ==
  \/ DeleteElectionBegin
  \/ DeleteElectionRecords
  \/ DeleteElectionCandidates
  \/ DeleteElectionResults
  \/ DeleteElectionRow
  \/ DeleteElectionBallots

\* ---- POST /api/elections/:id/tie-break (src/src/server.js 246-320) ----
TieFrame == <<voting_records, voters, ballots, vote, tally, tally2, del, clock, cast, swapped, proc, cipher,
              adm, writer>>

\* requests that reach the route: who sends them (req.user.type), the :id of the path, as
\* the number Number() makes of it (0 when it makes none), and the JSON body, with candidates
\* inside and outside a tie of 1 and 2
TieBodies ==
  { [userType |-> "admin", id |-> E, action |-> "random_draw", candidateIds |-> <<1, 2>>,
     chosenCandidateId |-> NULL],
    [userType |-> "admin", id |-> E, action |-> "regulatory_decision", candidateIds |-> <<>>,
     chosenCandidateId |-> 1],
    [userType |-> "admin", id |-> E, action |-> "second_round", candidateIds |-> <<1, 2>>,
     chosenCandidateId |-> NULL],
    [userType |-> "admin", id |-> E, action |-> "recount", candidateIds |-> <<>>,
     chosenCandidateId |-> NULL],
    [userType |-> "voter", id |-> E, action |-> "random_draw", candidateIds |-> <<1, 2>>,
     chosenCandidateId |-> NULL],
    [userType |-> "admin", id |-> 0, action |-> "random_draw", candidateIds |-> <<1, 2>>,
     chosenCandidateId |-> NULL],
    [userType |-> "admin", id |-> E, action |-> "random_draw", candidateIds |-> <<1, 3>>,
     chosenCandidateId |-> NULL],
    [userType |-> "admin", id |-> E, action |-> "random_draw", candidateIds |-> <<1>>,
     chosenCandidateId |-> NULL],
    [userType |-> "admin", id |-> E, action |-> "regulatory_decision", candidateIds |-> <<>>,
     chosenCandidateId |-> 3],
    [userType |-> "admin", id |-> E, action |-> "regulatory_decision", candidateIds |-> <<>>,
     chosenCandidateId |-> NULL],
    [userType |-> "admin", id |-> E, action |-> "regulatory_decision", candidateIds |-> <<>>,
     chosenCandidateId |-> 9],
    [userType |-> "admin", id |-> E, action |-> "second_round", candidateIds |-> <<2>>,
     chosenCandidateId |-> NULL] }

\* const { action, candidateIds, chosenCandidateId } = req.body || {} when req.body is undefined
UndefinedBody ==
  [userType |-> "admin", id |-> E, action |-> "undefined", candidateIds |-> <<>>,
   chosenCandidateId |-> NULL]

\* a server that registered express.json() before the route, so that the handler finds the
\* body as it was sent: the variant the properties that rest on the rejection of every
\* request must reject
ParsedBody(sent) == sent

\* the request as the handler finds it: the route is registered at line 246,
\* app.use(express.json()) at line 705, so no parser has run when the handler reads the body
RequestBody(sent) == [UndefinedBody EXCEPT !.userType = sent.userType, !.id = sent.id]

TieActions == {"second_round", "random_draw", "regulatory_decision"}

\* SELECT name FROM candidates WHERE id = ? LIMIT 1 (no election filter)
SelectCandidateName(rows, candidateId) == {c.name : c \in {x \in rows : x.id = candidateId}}

\* UPDATE election_results SET winner_id = ?, winner_name = ? WHERE election_id = ?
UpdateWinner(rows, electionId, winnerId, winnerName) ==
  {IF x.election_id = electionId
     THEN [x EXCEPT !.winner_id = winnerId, !.winner_name = winnerName]
     ELSE x : x \in rows}

\* a log that replaces the election's earlier records by the new one: the variant the
\* one-record-more properties must reject
InsertDecisionReplacing(rows, id, electionId, slot, now) ==
  {d \in rows : d.election_id # electionId}
    \cup {[ id |-> id, election_id |-> electionId,
            decision_type |-> slot.action,
            payload |-> [candidateIds |-> slot.candidateIds, winnerId |-> slot.winnerId,
                         newElectionId |-> slot.newElectionId, seed |-> slot.seed,
                         index |-> slot.index],
            decided_at |-> now ]}

\* INSERT INTO election_decisions (election_id, decision_type, payload_json, decided_by); id is
\* the AUTO_INCREMENT value of the row
InsertDecision(rows, id, electionId, slot, now) ==
  rows \cup {[ id |-> id, election_id |-> electionId,
               decision_type |-> slot.action,
               payload |-> [candidateIds |-> slot.candidateIds, winnerId |-> slot.winnerId,
                            newElectionId |-> slot.newElectionId, seed |-> slot.seed,
                            index |-> slot.index],
               decided_at |-> now ]}

\* rows one after the other, by primary key
RECURSIVE ById(_)
ById(rows) ==
  IF rows = {} THEN <<>>
  ELSE LET c == CHOOSE x \in rows : \A y \in rows : x.id <= y.id
       IN  <<c>> \o ById(rows \ {c})

\* SELECT ... FROM candidates WHERE election_id = ?, then
\* origCandidates.filter(c => candidateIds.includes(c.id))
ToCopy(rows, electionId, candidateIds) ==
  ById({c \in rows : c.election_id = electionId
                     /\ \E i \in 1..Len(candidateIds) : candidateIds[i] = c.id})

TieAnswer(kind) == [tb EXCEPT !.pc = "done", !.res = kind]

\* whether the election's snapshot says tie and has no winner
OpenTie(rows, electionId) ==
  \E x \in rows : x.election_id = electionId /\ x.results_json.tie /\ x.winner_id = NULL

\* one await of the handler on the request it finds; stores that the step does not write stay
\* as they are.  Every statement the handler awaits can throw (storeUp is FALSE): the catch
\* answers 500 and what the earlier statements wrote stays
TieBreakOn(body, index, seed, storeUp) ==
  LET same == [tb |-> tb, elections |-> elections, candidates |-> candidates,
               election_results |-> election_results, election_decisions |-> election_decisions,
               auto_increment |-> auto_increment]
      names == SelectCandidateName(candidates, tb.winnerId)
      found == ToCopy(candidates, E, tb.candidateIds)
  IN  IF tb.pc = "idle" THEN
        IF body.userType # "admin"
          THEN [same EXCEPT !.tb = [IdleTieBreak EXCEPT !.pc = "done", !.res = "Forbidden"]]
        ELSE IF body.id = 0
          THEN [same EXCEPT !.tb = [IdleTieBreak EXCEPT !.pc = "done", !.res = "IdInvalide"]]
        ELSE IF body.action \notin TieActions
          THEN [same EXCEPT !.tb = [IdleTieBreak EXCEPT !.pc = "done", !.res = "ActionInvalide"]]
          ELSE [same EXCEPT !.tb = [IdleTieBreak EXCEPT !.pc = "table", !.action = body.action,
                                      !.candidateIds = body.candidateIds,
                                      !.winnerId = body.chosenCandidateId]]
      ELSE IF tb.pc = "done" THEN [same EXCEPT !.tb = IdleTieBreak]
      ELSE IF ~storeUp THEN [same EXCEPT !.tb = TieAnswer("Error")]
      ELSE IF tb.pc = "table" THEN
        IF tb.action = "regulatory_decision"
          THEN IF tb.winnerId = NULL THEN [same EXCEPT !.tb = TieAnswer("BadRequest")]
               ELSE [same EXCEPT !.tb.pc = "selName"]
        ELSE IF Len(tb.candidateIds) < 2 THEN [same EXCEPT !.tb = TieAnswer("BadRequest")]
        ELSE IF tb.action = "second_round" THEN [same EXCEPT !.tb.pc = "selOrig"]
        ELSE [same EXCEPT !.tb.pc = "selName", !.tb.winnerId = tb.candidateIds[index + 1],
                          !.tb.seed = seed, !.tb.index = index]
      ELSE IF tb.pc = "selOrig" THEN
        IF \E e \in elections : e.id = E THEN [same EXCEPT !.tb.pc = "insElection"]
        ELSE [same EXCEPT !.tb = TieAnswer("NotFound")]
      ELSE IF tb.pc = "insElection" THEN
        [same EXCEPT !.tb.pc = "selCandidates",
                     !.tb.newElectionId = auto_increment.elections + 1,
                     !.auto_increment.elections = auto_increment.elections + 1,
                     !.elections = elections \cup
                        {[id |-> auto_increment.elections + 1, status |-> "draft"]}]
      ELSE IF tb.pc = "selCandidates" THEN
        [same EXCEPT !.tb.pc = IF found = <<>> THEN "log" ELSE "copy",
                     !.tb.toCopy = [i \in 1..Len(found) |-> found[i].name]]
      ELSE IF tb.pc = "copy" THEN
        [same EXCEPT !.tb.pc = IF Len(tb.toCopy) = 1 THEN "log" ELSE "copy",
                     !.tb.toCopy = Tail(tb.toCopy),
                     !.auto_increment.candidates = auto_increment.candidates + 1,
                     !.candidates = InsertCandidate(candidates, auto_increment.candidates + 1,
                                                    tb.newElectionId, Head(tb.toCopy))]
      ELSE IF tb.pc = "selName" THEN
        IF names = {} /\ tb.action = "regulatory_decision"
          THEN [same EXCEPT !.tb = TieAnswer("NotFound")]
          ELSE [same EXCEPT !.tb.pc = "update",
                            !.tb.winnerName = IF names = {} THEN NoName
                                              ELSE CHOOSE n \in names : TRUE]
      ELSE IF tb.pc = "update" THEN
        [same EXCEPT !.tb.pc = "log",
                     !.election_results = UpdateWinner(election_results, E, tb.winnerId,
                                                       tb.winnerName)]
      ELSE
        [same EXCEPT !.tb = TieAnswer("ok"),
                     !.auto_increment.election_decisions = auto_increment.election_decisions + 1,
                     !.election_decisions =
                        InsertDecision(election_decisions, auto_increment.election_decisions + 1,
                                       E, tb, clock)]

TieBreakStep(sent, index, seed, storeUp) == TieBreakOn(RequestBody(sent), index, seed, storeUp)

\* crypto.randomBytes(16)
Seeds == 1..NumSeeds

\* what an await of the handler draws: a request when one arrives, crypto.randomInt(0, n)
\* and the seed when the branches are entered
BodiesAt(slot, bodies) == IF slot.pc = "idle" THEN bodies ELSE {UndefinedBody}
IndexesAt(slot) ==
  IF slot.pc = "table" /\ slot.action = "random_draw" /\ Len(slot.candidateIds) >= 2
    THEN 0..(Len(slot.candidateIds) - 1)
    ELSE {0}
SeedsAt(slot) == IF slot.pc = "table" /\ slot.action = "random_draw" THEN Seeds ELSE {1}

\* the slot of a request that has just arrived remembers the request as it was sent and
\* whether the election's snapshot was then tied without a winner
Arrived(slot, sent) ==
  IF tb.pc = "idle"
    THEN [slot EXCEPT !.sent = sent, !.openTie = OpenTie(election_results, E)]
    ELSE slot

\* the route as server.js registers it: the handler, await by await, on the request it finds
TieBreak ==
  /\ tb.pc = "idle" =>
       /\ InFlight < MaxInFlight
       /\ Cardinality(election_decisions) < MaxDecisions
       /\ Cardinality(elections) <= MaxDecisions
  /\ \E sent \in BodiesAt(tb, TieBodies), index \in IndexesAt(tb), seed \in SeedsAt(tb),
        storeUp \in BOOLEAN :
       LET after == TieBreakStep(sent, index, seed, storeUp)
       IN  /\ tb' = Arrived(after.tb, sent)
           /\ elections' = after.elections
           /\ candidates' = after.candidates
           /\ election_results' = after.election_results
           /\ election_decisions' = after.election_decisions
           /\ auto_increment' = after.auto_increment
  /\ UNCHANGED TieFrame

\* every statement the handler's code can execute, whatever the request it is given: the
\* handler on the body as it was sent.  The route hands it no body (RequestBody), so the
\* steps of TieBreak are among these; the steps beyond them are the writes to the decision
\* log that a property of every write to the log has to cover
ResolveTie ==
  /\ tb.pc = "idle" =>
       /\ InFlight < MaxInFlight
       /\ Cardinality(election_decisions) < MaxDecisions
       /\ Cardinality(elections) <= MaxDecisions
  /\ \E sent \in BodiesAt(tb, TieBodies), index \in IndexesAt(tb), seed \in SeedsAt(tb),
        storeUp \in BOOLEAN :
       LET after == TieBreakOn(sent, index, seed, storeUp)
       IN  /\ tb' = Arrived(after.tb, sent)
           /\ elections' = after.elections
           /\ candidates' = after.candidates
           /\ election_results' = after.election_results
           /\ election_decisions' = after.election_decisions
           /\ auto_increment' = after.auto_increment
  /\ UNCHANGED TieFrame

\* ---- POST /api/elections/:id/proclaim (src/src/server.js 2289-2312) ----
ProcFrame ==
  <<elections, candidates, voting_records, voters, ballots, vote, tally, tally2, del, clock, cast, swapped,
    election_decisions, tb, cipher,
    auto_increment, adm, writer>>

\* assertAdminCanAccessElection: SELECT institution_id FROM elections; 404 when the election is gone
ProclaimBegin ==
  /\ proc.pc = "idle"
  /\ InFlight < MaxInFlight
  /\ proc' = IF \E e \in elections : e.id = E
               THEN [IdleProclaim EXCEPT !.pc = "select"]
               ELSE [IdleProclaim EXCEPT !.pc = "done", !.res = "NotFound"]
  /\ UNCHANGED election_results
  /\ UNCHANGED ProcFrame

\* SELECT ... FROM election_results WHERE election_id = ?; 404 when there is no row
ProclaimSelect ==
  /\ proc.pc = "select"
  /\ proc' = IF \E x \in election_results : x.election_id = E
               THEN [proc EXCEPT !.pc = "update"]
               ELSE [proc EXCEPT !.pc = "done", !.res = "NothingToProclaim"]
  /\ UNCHANGED election_results
  /\ UNCHANGED ProcFrame

\* a proclamation that also clears the stored winner: the variant the frame of proclaim must
\* reject
SetProclaimedClearingWinner(rows, electionId, now) ==
  {IF x.election_id = electionId
     THEN [x EXCEPT !.proclaimed = TRUE, !.proclaimed_at = now, !.winner_id = NULL,
                    !.winner_name = NoName]
     ELSE x : x \in rows}

\* UPDATE election_results SET proclaimed = 1, proclaimed_at = NOW() WHERE election_id = ?
SetProclaimed(rows, electionId, now) ==
  {IF x.election_id = electionId
     THEN [x EXCEPT !.proclaimed = TRUE, !.proclaimed_at = now]
     ELSE x : x \in rows}

ProclaimUpdate ==
  /\ proc.pc = "update"
  /\ election_results' = SetProclaimed(election_results, E, clock)
  /\ proc' = [proc EXCEPT !.pc = "after"]
  /\ UNCHANGED ProcFrame

\* SELECT the row again and answer; reading a row that is gone throws and answers 500
ProclaimAnswer ==
  /\ proc.pc = "after"
  /\ proc' = IF \E x \in election_results : x.election_id = E
               THEN [proc EXCEPT !.pc = "done", !.res = "ok"]
               ELSE [proc EXCEPT !.pc = "done", !.res = "Error"]
  /\ UNCHANGED election_results
  /\ UNCHANGED ProcFrame

ProclaimEnd ==
  /\ proc.pc = "done"
  /\ proc' = IdleProclaim
  /\ UNCHANGED election_results
  /\ UNCHANGED ProcFrame

Proclaim ==
  \/ ProclaimBegin
  \/ ProclaimSelect
  \/ ProclaimUpdate
  \/ ProclaimAnswer
  \/ ProclaimEnd

\* ---- writes to stored ballots through the Ballot model (src/unnamed/part_001 26-33) ----
VaultFrame ==
  <<elections, candidates, voting_records, voters, election_results, vote, tally, tally2, del, clock, cast,
    swapped, election_decisions, tb, proc, cipher,
    auto_increment, adm>>

\* ballotSchema.pre('save'): the hook passes unless the document is not new and is modified
PreSaveAccepts(isNew, isModified) == ~(isNew = FALSE /\ isModified)

\* a stored ballot given a payload for the given candidate
Rewritten(b, candidateId) ==
  [b EXCEPT !.encryptedVote =
     encryptVote([electionId |-> b.electionId, candidateId |-> candidateId, timestamp |-> b.timestamp],
                 b.electionId, b.encryptedVote.iv)]

\* document.save() of a ballot loaded from the collection: the 'save' hook decides
DocumentSave(docs, old, new) ==
  IF PreSaveAccepts(FALSE, new # old) THEN (docs \ {old}) \cup {new} ELSE docs

\* Ballot.updateOne and the other query writes: the schema registers its hook for 'save' only,
\* so nothing runs before the write; timestamps: true adds updatedAt to the update when the
\* query is called (now), and the store applies the update to the document it finds
QueryUpdate(docs, old, new, now) == (docs \ {old}) \cup {[new EXCEPT !.updatedAt = now]}

\* a client of the model loads a ballot, changes its payload and calls save()
ResaveBallot ==
  /\ \E old \in ballots, c \in BothChoices :
       ballots' = DocumentSave(ballots, old, Rewritten(old, c))
  /\ UNCHANGED <<VaultFrame, writer>>

\* a client of the model calls Ballot.updateOne({ voteHash }, { encryptedVote }) for a stored
\* ballot: the query is built and stamped with the time of the call; no route of server.js
\* does, and nothing in the schema stops it
UpdateBallotCall ==
  /\ writer.pc = "idle"
  /\ \E old \in ballots, c \in BothChoices :
       writer' = [pc |-> "store", voteHash |-> old.voteHash, candidateId |-> c, now |-> clock]
  /\ UNCHANGED <<ballots, VaultFrame>>

\* the store executes the update on the document the filter finds, if there still is one
UpdateBallotStore ==
  /\ writer.pc = "store"
  /\ LET found == {b \in ballots : b.voteHash = writer.voteHash}
     IN  IF found = {} THEN ballots' = ballots
         ELSE \E old \in found :
                ballots' = QueryUpdate(ballots, old, Rewritten(old, writer.candidateId),
                                       writer.now)
  /\ writer' = IdleWriter
  /\ UNCHANGED VaultFrame

UpdateBallot ==
  \/ UpdateBallotCall
  \/ UpdateBallotStore

\* ---- VoteEncryption called on its own (src/src/utils/encryption.js) ----
CipherFrame ==
  <<elections, candidates, voting_records, voters, ballots, election_results, vote, tally, tally2, del,
    clock, cast, swapped, election_decisions, tb, proc, auto_increment, adm, writer>>

\* the elections, ivs and tags the cipher is tried with
CipherElections == {E, OtherElection}
CipherIVs == 1..(NumIVs + 1)
CipherPayloads ==
  {[electionId |-> e, candidateId |-> c, timestamp |-> t] :
     e \in CipherElections, c \in BothChoices, t \in 0..MaxTime}
TagsFor(box) ==
  {[mac |-> m, len |-> n] :
     m \in {box.authTag.mac, Mac(OtherElection + 1, box.iv, box.encryptedData.pt)},
     n \in 1..TagLength}

\* encryptVote(voteData, electionId): the iv is crypto.randomBytes(16)
EncryptVote ==
  /\ cipher.pc = "input"
  /\ cipher' = [cipher EXCEPT !.pc = "sealed",
                               !.box = encryptVote(cipher.voteData, cipher.electionId, cipher.iv)]
  /\ UNCHANGED CipherFrame

\* decryptVote(encryptedData, electionId, iv, authTag) on the ciphertext just produced, with
\* the election, iv and tag the caller gives
DecryptVote ==
  /\ cipher.pc = "sealed"
  /\ \E e \in CipherElections, iv \in CipherIVs, tag \in TagsFor(cipher.box) :
       cipher' = [cipher EXCEPT !.pc = "opened",
                                !.given = [electionId |-> e, iv |-> iv, authTag |-> tag],
                                !.res = decryptVote(cipher.box.encryptedData, e, iv, tag)]
  /\ UNCHANGED CipherFrame

\* ---- the clock ----
Tick ==
  /\ clock < MaxTime
  /\ clock' = clock + 1
  /\ UNCHANGED <<elections, candidates, voting_records, voters, ballots, election_results,
                 vote, tally, tally2, del, cast, swapped, election_decisions, tb, proc, cipher,
    auto_increment, adm, writer>>

\* ---- specifications ----
\* concurrent submissions and the administrative handlers
NextSubmit ==
  \/ \E r \in VoteReqs : SubmitVote(r, VoteChoices)
  \/ Admin

SpecSubmit == Init /\ [][NextSubmit]_vars

\* the tally and the election teardown, interleaved with one submission at a time and the
\* administrative handlers
NextTally ==
  \/ SubmitVote(1, VoteChoices)
  \/ Admin
  \/ RunTally
  \/ DeleteElection

SpecTally == Init /\ [][NextTally]_vars

\* submissions for either candidate of E while time passes
NextSwap ==
  \/ SubmitVote(1, BothChoices)
  \/ \E v \in Voters : AddEligible(v)
  \/ StartElection
  \/ Tick

SpecSwap == Init /\ [][NextSwap]_vars

\* submissions and tallies only, on an election that is set up and never torn down
NextOrphan ==
  \/ SubmitVote(1, VoteChoices)
  \/ \E v \in Voters : AddEligible(v)
  \/ StartElection
  \/ RunTally

SpecOrphan == Init /\ [][NextOrphan]_vars

\* everything that reads or writes the results of an election that is set up: submissions
\* for either candidate, the tally, tie-break, proclamation and the election teardown
NextResults ==
  \/ SubmitVote(1, BothChoices)
  \/ \E v \in Voters : AddEligible(v)
  \/ StartElection
  \/ RunTally
  \/ TieBreak
  \/ Proclaim
  \/ DeleteElection

SpecResults == Init /\ [][NextResults]_vars

\* submissions and direct writes to stored ballots through the Ballot model
NextVault ==
  \/ SubmitVote(1, BothChoices)
  \/ \E v \in Voters : AddEligible(v)
  \/ StartElection
  \/ ResaveBallot
  \/ UpdateBallot
  \/ Tick

SpecVault == Init /\ [][NextVault]_vars

\* the tally on stores that hold up to MaxCount ballots for each of three candidates and up to
\* MaxBad ballots that do not decrypt under the election's key, every voter marked
CountCandidates ==
  { [id |-> 1, election_id |-> E, name |-> "A"],
    [id |-> 2, election_id |-> E, name |-> "B"],
    [id |-> 3, election_id |-> E, name |-> "C"] }

\* a ballot of E whose payload was encrypted under another key: decryptVote throws on it
CorruptBallot(voteHash) ==
  NewBallot(E, encryptVote([electionId |-> E, candidateId |-> 1, timestamp |-> 0], OtherElection, 1),
            voteHash, 0)

CountVault(a, b, c, bad) ==
  {BuildBallot(1, 1, h, 0) : h \in 1..a}
    \cup {BuildBallot(2, 1, h, 0) : h \in (a + 1)..(a + b)}
    \cup {BuildBallot(3, 1, h, 0) : h \in (a + b + 1)..(a + b + c)}
    \cup {CorruptBallot(h) : h \in (a + b + c + 1)..(a + b + c + bad)}

InitVault(a, b, c, bad) ==
    /\ elections = {[id |-> E, status |-> "completed"]}
    /\ candidates = CountCandidates
    /\ voters = 1..(a + b + c + bad)
    /\ voting_records = {[voter_id |-> v, election_id |-> E, has_voted |-> TRUE, voted_at |-> 0] :
                           v \in 1..(a + b + c + bad)}
    /\ ballots = CountVault(a, b, c, bad)
    /\ election_results = {}
    /\ vote = [r \in VoteReqs |-> IdleVote]
    /\ tally = IdleTally
    /\ tally2 = IdleTally
    /\ del = "idle"
    /\ clock = 0
    /\ cast = [v \in Voters |-> IF v <= a + b + c + bad THEN 1 ELSE 0]
    /\ swapped = {}
    /\ election_decisions = {}
    /\ tb = IdleTieBreak
    /\ proc = IdleProclaim
    /\ cipher = IdleCipher
    /\ auto_increment = LastIds(candidates, voters)
    /\ adm = IdleAdmin
    /\ writer = IdleWriter

InitCount ==
  \E a \in 0..MaxCount, b \in 0..MaxCount, c \in 0..MaxCount, bad \in 0..MaxBad :
    InitVault(a, b, c, bad)

SpecCount == InitCount /\ [][RunTally]_vars

\* two tally requests for the same election beside submissions, one at a time
NextTwoTallies ==
  \/ SubmitVote(1, VoteChoices)
  \/ \E v \in Voters : AddEligible(v)
  \/ StartElection
  \/ RunTally
  \/ RunOtherTally

SpecTwoTallies == Init /\ [][NextTwoTallies]_vars

\* the tie-break route beside tallies of a vault of at most one ballot for each of two
\* candidates
InitTie == \E a \in 0..1, b \in 0..1 : InitVault(a, b, 0, 0)

NextTieBreak ==
  \/ RunTally
  \/ TieBreak

SpecTieBreak == InitTie /\ [][NextTieBreak]_vars

\* proclamations at different times beside tallies of the small vaults
NextProclaim ==
  \/ RunTally
  \/ Proclaim
  \/ Tick

SpecProclaim == InitTie /\ [][NextProclaim]_vars

\* the decision log beside everything that writes near it: every statement of the tie-break
\* handler's code, tallies, proclamations and the deletion of the election
NextLog ==
  \/ RunTally
  \/ ResolveTie
  \/ Proclaim
  \/ DeleteElection

\* the election completed with an empty vault
InitLog == InitVault(0, 0, 0, 0)

SpecLog == InitLog /\ [][NextLog]_vars

\* the tally on vaults whose payloads carry candidate ids as the vote handler stored them: up
\* to one ballot for each of candidates 1 and 2 in the canonical spelling and up to MaxPadded
\* for each of them sent with a leading zero, every voter marked
MaxPadded == 2

SpelledVault(a, b, p, q) ==
  {BuildBallot(1, 1, h, 0) : h \in 1..a}
    \cup {BuildBallot(2, 1, h, 0) : h \in (a + 1)..(a + b)}
    \cup {BuildBallot(Padded(1), 1, h, 0) : h \in (a + b + 1)..(a + b + p)}
    \cup {BuildBallot(Padded(2), 1, h, 0) : h \in (a + b + p + 1)..(a + b + p + q)}

InitSpelled ==
  \E a \in 0..1, b \in 0..1, p \in 0..MaxPadded, q \in 0..MaxPadded :
    /\ elections = {[id |-> E, status |-> "completed"]}
    /\ candidates = CountCandidates
    /\ voters = 1..(a + b + p + q)
    /\ voting_records = {[voter_id |-> v, election_id |-> E, has_voted |-> TRUE, voted_at |-> 0] :
                           v \in 1..(a + b + p + q)}
    /\ ballots = SpelledVault(a, b, p, q)
    /\ election_results = {}
    /\ vote = [r \in VoteReqs |-> IdleVote]
    /\ tally = IdleTally
    /\ tally2 = IdleTally
    /\ del = "idle"
    /\ clock = 0
    /\ cast = [v \in Voters |-> IF v <= a + b + p + q THEN 1 ELSE 0]
    /\ swapped = {}
    /\ election_decisions = {}
    /\ tb = IdleTieBreak
    /\ proc = IdleProclaim
    /\ cipher = IdleCipher
    /\ auto_increment = LastIds(candidates, voters)
    /\ adm = IdleAdmin
    /\ writer = IdleWriter

SpecSpelled == InitSpelled /\ [][RunTally]_vars

\* candidateId values in either spelling: those of VoteChoices and "01"
SpelledChoices == VoteChoices \cup {Padded(1)}

\* the ledger and the vault under submissions whose electionId and candidateId are sent in
\* either spelling, beside the administrative handlers and the deletion of the election
NextLedger ==
  \/ SubmitVote(1, SpelledChoices)
  \/ \E v \in Voters, c \in VoteChoices : VoteBeginPadded(1, v, c)
  \/ Admin
  \/ DeleteElection

SpecLedger == Init /\ [][NextLedger]_vars

\* the cipher on its own: a payload, an election and an iv are drawn, the payload is encrypted
\* and the ciphertext decrypted with every combination of election, iv and tag
InitCipher ==
  \E x \in CipherPayloads, e \in CipherElections, iv \in CipherIVs :
    /\ elections = InitElections("draft")
    /\ candidates = InitCandidates
    /\ voting_records = {}
    /\ voters = Voters
    /\ ballots = {}
    /\ election_results = {}
    /\ vote = [r \in VoteReqs |-> IdleVote]
    /\ tally = IdleTally
    /\ tally2 = IdleTally
    /\ del = "idle"
    /\ clock = 0
    /\ cast = [v \in Voters |-> 0]
    /\ swapped = {}
    /\ election_decisions = {}
    /\ tb = IdleTieBreak
    /\ proc = IdleProclaim
    /\ cipher = [IdleCipher EXCEPT !.pc = "input", !.voteData = x, !.electionId = e, !.iv = iv]
    /\ auto_increment = LastIds(candidates, voters)
    /\ adm = IdleAdmin
    /\ writer = IdleWriter

NextCipher ==
  \/ EncryptVote
  \/ DecryptVote

SpecCipher == InitCipher /\ [][NextCipher]_vars

\* the voter and election registry: one submission at a time beside the administrative
\* handlers of E and the routes that create voters and elections
NextRegistry ==
  \/ SubmitVote(1, BothChoices)
  \/ Admin
  \/ Registrar

SpecRegistry == Init /\ [][NextRegistry]_vars

\* ---- properties ----
\* the step on which the handler of slot r sends its response
Returns(r) == vote[r].pc # "done" /\ vote'[r].pc = "done"

\* the voted flag of a voter's record; FALSE when there is no record
HasVoted(rows, voterId) == \E row \in SelectVotingRecord(rows, voterId, E) : row.has_voted

\* C1: every snapshot runTally writes counts at most one ballot of any single voter: the
\* ballots a tally read and went on to count never hold two ballots saved for the same voter
OneCountedVotePerVoter ==
  [][(tally.pc = "upsert" /\ tally'.pc = "done") => ~tally.doubled]_vars

\* C2: once a submission of a voter has committed, every submission of that voter begun
\* later answers AlreadyVoted, and the collection never holds two ballots of the voter
SecondVoteAlreadyVoted ==
  [][/\ \A r \in VoteReqs :
          (Returns(r) /\ vote[r].afterCommit) => vote'[r].res = "AlreadyVoted"
     /\ \A v \in Voters : cast'[v] <= 1]_vars

\* C3: marking is an atomic check-and-set: two submissions of the same voter that run at the
\* same time are never both past the ballot save, waiting to mark
AtomicMarkVoted ==
  \A r, q \in VoteReqs :
    (r # q /\ vote[r].pc = "mark" /\ vote[q].pc = "mark") => vote[r].voterId # vote[q].voterId

\* C4: a tally whose count of voted records differs from the number of ballots it read answers
\* ConsistencyError with both counts, and neither that step nor the rest of the handler
\* touches election_results
MismatchStopsTally ==
  [][/\ (tally.pc = "count" /\ tally' # tally
           /\ CountVoted(voting_records, E) # Cardinality(tally.ballots))
        => /\ tally'.pc = "done" /\ tally'.res = "ConsistencyError"
           /\ tally'.mysqlVotes = CountVoted(voting_records, E)
           /\ tally'.mongoVotes = Cardinality(tally.ballots)
           /\ election_results' = election_results
     /\ (tally.pc = "done" /\ tally.res = "ConsistencyError" /\ tally' # tally)
        => /\ tally' = IdleTally
           /\ election_results' = election_results]_vars

\* a tally has just refused mismatching counts while an earlier snapshot is stored
MismatchSeen ==
  /\ tally.pc = "done" /\ tally.res = "ConsistencyError"
  /\ tally.mysqlVotes # tally.mongoVotes
  /\ election_results # {}

\* C5: after a submission saved its ballot and failed to mark the voter, every tally started
\* from then on ends in ConsistencyError, whatever submissions follow
OrphanBlocksTally ==
  tally.afterOrphan =>
    \/ tally.pc = "count"
    \/ tally.pc = "done" /\ tally.res = "ConsistencyError"

\* C6: in the state in which a receipt is returned, the collection holds exactly one ballot
\* with that voteHash and the caller's record has has_voted set
ReceiptMeansCommitted ==
  [][\A r \in VoteReqs :
       (Returns(r) /\ vote'[r].res = "Receipt")
         => /\ Cardinality({b \in ballots' : b.voteHash = vote'[r].voteHash}) = 1
            /\ HasVoted(voting_records', vote[r].voterId)]_vars

\* C7: a ballot is saved only in a state where the caller's record exists with has_voted
\* false and the election is active
AppendOnlyWhileEligible ==
  [][\A r \in VoteReqs :
       (vote[r].pc = "save" /\ vote'[r].pc = "mark")
         => /\ \E row \in SelectVotingRecord(voting_records, vote[r].voterId, E) : ~row.has_voted
            /\ SelectActiveElection(elections, E) # {}]_vars

\* the outcomes of a submission that the code reaches before any write
RefusalKinds == {"Ineligible", "AlreadyVoted", "ElectionNotActive", "InvalidCandidate", "CryptoError"}

\* C8: a submission that ends in Ineligible, AlreadyVoted, ElectionNotActive, InvalidCandidate
\* or CryptoError has written nothing: it had saved no ballot, and the step that answers
\* leaves the collection and voting_records as they were
RefusalWritesNothing ==
  [][\A r \in VoteReqs :
       (Returns(r) /\ vote'[r].res \in RefusalKinds)
         => /\ vote[r].voteHash = NULL
            /\ ballots' = ballots
            /\ voting_records' = voting_records]_vars

\* a cipher failure and an AlreadyVoted refusal have both been answered while ballots are stored
RefusalsSeen ==
  /\ ballots # {}
  /\ \E r, q \in VoteReqs :
       /\ vote[r].pc = "done" /\ vote[r].res = "CryptoError"
       /\ vote[q].pc = "done" /\ vote[q].res = "AlreadyVoted"

\* C9: a stored ballot has the fields electionId, encryptedVote, voteHash and the timestamps
\* and nothing else, its payload is {electionId, candidateId, timestamp}, and a ledger row
\* has no voteHash field: no stored field joins a row to a ballot
NoVoterReference ==
  /\ \A b \in ballots :
       /\ DOMAIN b = {"electionId", "encryptedVote", "voteHash", "timestamp", "createdAt", "updatedAt"}
       /\ DOMAIN b.encryptedVote = {"encryptedData", "iv", "authTag"}
       /\ DOMAIN DecryptBallot(b, E) = {"electionId", "candidateId", "timestamp"}
  /\ \A row \in voting_records :
       DOMAIN row = {"voter_id", "election_id", "has_voted", "voted_at"}

\* two ballots are stored and a voter's record is marked
BallotsAndMarksStored ==
  /\ Cardinality(ballots) = 2
  /\ \E row \in voting_records : row.has_voted

\* what an observer holding the key reads in a collection, the random digest and iv left out
Contents(docs) ==
  {[electionId |-> b.electionId, voteData |-> DecryptBallot(b, b.electionId),
    timestamp |-> b.timestamp, createdAt |-> b.createdAt, updatedAt |-> b.updatedAt] : b \in docs}

\* exactly two voters have committed one vote each, for different candidates
TwoVotersCommitted ==
  /\ Cardinality(ballots) = 2
  /\ Cardinality({v \in Voters : cast[v] = 1 /\ HasVoted(voting_records, v)}) = 2
  /\ Cardinality({DecryptBallot(b, E).candidateId : b \in ballots}) = 2

\* C10: when two voters have committed, the run in which their choices are exchanged leaves
\* the same ledger and the same readable collection, timestamps included
ChoicesUnlinkable ==
  TwoVotersCommitted =>
    <<voting_records, Contents(ballots)>> = <<voting_records, Contents(swapped)>>

\* the ledger with the voted flag of one voter's record set to a given value
WithHasVoted(rows, voterId, flag) ==
  {IF row.voter_id = voterId THEN [row EXCEPT !.has_voted = flag] ELSE row : row \in rows}

\* what a slot shows after the eligibility step
StepAnswer(slot) == IF slot.pc = "done" THEN slot.res ELSE "pass"

\* C11: the outcome of a voter's submission does not depend on whether another voter has
\* voted: the only step that reads the ledger answers the same from every ledger that differs
\* in the has_voted value of another voter's record
OutcomeIgnoresOtherVoters ==
  [][\A r \in VoteReqs :
       (vote[r].pc = "selRecord" /\ vote'[r] # vote[r])
         => \A other \in Voters \ {vote[r].voterId}, flag \in BOOLEAN :
              StepAnswer(vote'[r]) =
                EligibilityAnswer(WithHasVoted(voting_records, other, flag), vote[r].voterId)]_vars

\* a submission has been answered with a receipt or as ineligible while another voter's
\* record is marked
OutcomesBesideVotedOther ==
  \E r \in VoteReqs :
    /\ vote[r].pc = "done" /\ vote[r].res \in {"Receipt", "Ineligible"}
    /\ \E row \in voting_records : row.voter_id # vote[r].voterId /\ row.has_voted

\* C12: the collection is append-only outside the election teardown: a step of a submission,
\* a tally, a tie-break or a proclamation keeps every stored ballot as it is, and only the
\* teardown's deleteMany removes ballots
VaultAppendOnly ==
  [][(\E b \in ballots : b \notin ballots') => (del = "ballots" /\ del' = "idle")]_vars

\* ballots are stored, a proclamation has succeeded and a tie-break request has been answered
VaultKeptThroughResults ==
  /\ ballots # {}
  /\ proc.pc = "done" /\ proc.res = "ok"
  /\ tb.pc = "done"

\* C14: removing the eligibility of a voter whose record has has_voted set is refused and
\* leaves the record in place (steps that keep the voters table: the eligible-voters routes)
RemoveRefusedAfterVote ==
  [][\A v \in Voters :
       (HasVoted(voting_records, v) /\ voters' = voters) => HasVoted(voting_records', v)]_vars

\* C15: has_voted is monotonic: outside the election teardown a record that is marked stays
\* present and marked, so the count of voted records never decreases
HasVotedMonotonic ==
  [][/\ \A v \in Voters : HasVoted(voting_records, v) => HasVoted(voting_records', v)
     /\ CountVoted(voting_records', E) >= CountVoted(voting_records, E)]_vars

\* C16: adding a voter who already has a record leaves the ledger as it is, adding twice is
\* adding once, and there is never more than one record per voter and election
AddEligibleInsertIfAbsent ==
  \A v \in Voters :
    LET once == InsertIgnoreVotingRecord(voting_records, v, E, voters, elections)
    IN  /\ SelectVotingRecord(voting_records, v, E) # {} => once = voting_records
        /\ InsertIgnoreVotingRecord(once, v, E, voters, elections) = once
        /\ Cardinality(SelectVotingRecord(once, v, E)) <= 1

\* a record that is marked, with its voted_at, is in the ledger while another voter has none
MarkedRecordStored ==
  /\ \E row \in voting_records : row.has_voted /\ row.voted_at # NULL
  /\ \E v \in Voters : SelectVotingRecord(voting_records, v, E) = {}

\* C13: a write that tries to modify a stored ballot is rejected and the stored ballot stays
\* as it is, whichever write path of the store it comes through; new ballots are accepted
StoredBallotImmutable ==
  [][/\ \A b \in ballots : b \in ballots'
     /\ Cardinality(ballots') >= Cardinality(ballots)]_vars

\* the votes a candidate has among the stored ballots that decrypt under the election's key
Votes(c) ==
  Cardinality({b \in ballots : DecryptBallot(b, E) # CryptoError /\ DecryptBallot(b, E).candidateId = c})

CandidateIds == {c.id : c \in candidates}
Entries == {c \in CandidateIds : Votes(c) > 0}
TopVotes ==
  IF Entries = {} THEN 0
  ELSE CHOOSE n \in {Votes(c) : c \in Entries} : \A c \in Entries : Votes(c) <= n
TopSet == {c \in Entries : Votes(c) = TopVotes}
IdsOf(list) == {list[i].candidateId : i \in 1..Len(list)}

RECURSIVE SumVotes(_)
SumVotes(list) == IF list = <<>> THEN 0 ELSE Head(list).votes + SumVotes(Tail(list))

\* C17: the tally's tiedCandidates are exactly the entries with the maximum count, tie says
\* that there is more than one of them with a positive count, and winner is null on a tie or
\* without entries and the single top entry otherwise; counts 3, 3, 1 give a tie of A and B
TieRule ==
  tally.pc = "upsert" =>
    LET out == tally.out
    IN  /\ IdsOf(out.tiedCandidates) = TopSet
        /\ Len(out.tiedCandidates) = Cardinality(TopSet)
        /\ \A i \in 1..Len(out.tiedCandidates) : out.tiedCandidates[i].votes = TopVotes
        /\ out.tie = (Cardinality(TopSet) > 1 /\ TopVotes > 0)
        /\ (out.tie \/ Entries = {}) => out.winner = NoEntry
        /\ (~out.tie /\ Entries # {}) =>
             /\ TopSet = {out.winner.candidateId}
             /\ out.winner.votes = TopVotes
        /\ (Votes(1) = 3 /\ Votes(2) = 3 /\ Votes(3) = 1) =>
             /\ out.tie
             /\ [i \in 1..Len(out.tiedCandidates) |-> out.tiedCandidates[i].candidateId] = <<1, 2>>
             /\ out.winner = NoEntry

\* a tally has computed its results on counts 3, 3, 1
TieOfTwoComputed ==
  /\ tally.pc = "upsert"
  /\ Votes(1) = 3 /\ Votes(2) = 3 /\ Votes(3) = 1
  /\ tally.out.tie

\* C18: a stored snapshot that says tie has no winner, unless a random_draw or
\* regulatory_decision record of the election was logged after the tally wrote the snapshot
TiedSnapshotHasNoWinner ==
  \A x \in election_results :
    x.results_json.tie =>
      \/ x.winner_id = NULL
      \/ \E d \in election_decisions :
           /\ d.election_id = x.election_id
           /\ d.decision_type \in {"random_draw", "regulatory_decision"}
           /\ d.id > x.decisions_before

\* a tied snapshot is stored and a tie-break request on it has been answered
TiedSnapshotStored ==
  /\ \E x \in election_results : x.results_json.tie /\ x.winner_id = NULL
  /\ tb.pc = "done"

\* C19: a ballot that does not decrypt does not stop the tally: the others are counted, each
\* entry has the votes of its candidate, the votes sum to decryptedVotes, and decryptedVotes
\* plus failedDecryptions is the number of ballots read
DecryptFailureIsLocal ==
  tally.pc = "upsert" =>
    LET out == tally.out
    IN  /\ IdsOf(out.results) = Entries
        /\ \A i \in 1..Len(out.results) : out.results[i].votes = Votes(out.results[i].candidateId)
        /\ SumVotes(out.results) = out.decryptedVotes
        /\ out.decryptedVotes = Cardinality({b \in ballots : DecryptBallot(b, E) # CryptoError})
        /\ out.decryptedVotes + out.failedDecryptions = Cardinality(ballots)

\* a tally has computed results from ballots of which one did not decrypt
FailedBallotBesideCounted ==
  /\ tally.pc = "upsert"
  /\ tally.out.failedDecryptions > 0
  /\ tally.out.decryptedVotes > 1

\* C20: the percentage of an entry is its votes over the number of decrypted ballots, times
\* 100, rounded to two decimals (stored in hundredths); X, X, Y give 66.67 and 33.33
PercentageOfDecrypted ==
  tally.pc = "upsert" =>
    LET out == tally.out
    IN  /\ \A i \in 1..Len(out.results) :
             out.results[i].percentage = Percentage(out.results[i].votes, out.decryptedVotes)
        /\ (Votes(1) = 2 /\ Votes(2) = 1 /\ Votes(3) = 0) =>
             [i \in 1..Len(out.results) |-> out.results[i].percentage] = <<6667, 3333>>

\* every order in which a vault of ballots can be returned
Orders(docs) ==
  {order \in [1..Cardinality(docs) -> docs] :
     \A i, j \in 1..Cardinality(docs) : order[i] = order[j] => i = j}

SnapshotContent(x) ==
  [ totalVotes |-> x.total_votes, results |-> x.results_json.list, tie |-> x.results_json.tie,
    tiedCandidates |-> x.results_json.tiedCandidates,
    winner |-> <<x.winner_id, x.winner_name>> ]

\* C21: with the ballots and the ledger unchanged, a tally run that writes the snapshot again
\* leaves totalVotes, the results list, tie, tiedCandidates and winner as they were, and what
\* a run computes is the same for every order in which the vault returns the ballots
TallyIdempotent ==
  [][/\ (tally.pc = "upsert" /\ Cardinality(ballots) <= MaxOrdered) =>
          \A order \in Orders(ballots) : TallyInOrder(order, candidates, E) = tally.out
     /\ \A x \in election_results, y \in election_results' :
          x.election_id = y.election_id => SnapshotContent(x) = SnapshotContent(y)]_vars

\* a later run has computed a tie of two on a vault whose snapshot is already stored
SecondRunComputed ==
  /\ tally.pc = "upsert"
  /\ tally.out.tie
  /\ Cardinality(ballots) = MaxOrdered
  /\ \E x \in election_results : x.election_id = E /\ x.results_json.tie

\* C22: once a snapshot is proclaimed, the write of a later tally run leaves its totalVotes,
\* results and winner as they are
ProclaimedSnapshotFrozen ==
  [][(tally.pc = "upsert" /\ tally'.pc = "done") =>
        \A x \in election_results :
          x.proclaimed =>
            \E y \in election_results' :
              y.election_id = x.election_id /\ SnapshotContent(y) = SnapshotContent(x)]_vars

\* C30: a step of proclaim creates and removes no snapshot and leaves totalVotes, results and
\* winner of every snapshot as they are; without a snapshot of the election it answers that
\* there is nothing to proclaim
ProclaimChangesOnlyFlag ==
  [][proc' # proc =>
        /\ {x.election_id : x \in election_results'} = {x.election_id : x \in election_results}
        /\ \A x \in election_results, y \in election_results' :
             x.election_id = y.election_id =>
               /\ SnapshotContent(y) = SnapshotContent(x)
               /\ y.decisions_before = x.decisions_before
        /\ (proc.pc = "select" /\ ~\E x \in election_results : x.election_id = E) =>
             /\ proc'.pc = "done" /\ proc'.res = "NothingToProclaim"
             /\ election_results' = election_results]_vars

\* a snapshot with a winner has been proclaimed and the request answered
ProclaimedWithWinner ==
  /\ proc.pc = "done" /\ proc.res = "ok"
  /\ \E x \in election_results : x.election_id = E /\ x.proclaimed /\ x.winner_id # NULL

Counting(run) == run.pc \in {"count", "names", "upsert"}

\* C23: two tally runs of the election are never in progress together, and with the vault
\* only growing no write of a run replaces a stored snapshot by one computed from fewer ballots
TallyRunsExclusive ==
  [][/\ ~(Counting(tally) /\ Counting(tally2))
     /\ \A x \in election_results, y \in election_results' :
          x.election_id = y.election_id => y.total_votes >= x.total_votes]_vars

\* the stores a tie-break writes
TieWrites == <<elections, candidates, election_results, election_decisions>>

ResolvingActions == {"random_draw", "regulatory_decision"}

\* the ids of the snapshot's tied candidates
TiedIds(rows, electionId) ==
  UNION {IdsOf(x.results_json.tiedCandidates) : x \in {y \in rows : y.election_id = electionId}}

\* the request a step of the tie-break belongs to, as it was sent, and whether the snapshot
\* was tied without a winner when it came
Request == IF tb.pc = "idle" THEN tb'.sent ELSE tb.sent
CameOnOpenTie == IF tb.pc = "idle" THEN tb'.openTie ELSE tb.openTie

\* the step sends the response of the request
Answered == tb'.pc = "done" /\ tb.pc # "done"

\* the request comes from an administrator and names the election
ForElection(body) == body.userType = "admin" /\ body.id = E

\* the candidate ids a request supplied
SuppliedIds(body) ==
  IF body.action = "regulatory_decision" THEN {body.chosenCandidateId}
  ELSE {body.candidateIds[i] : i \in 1..Len(body.candidateIds)}

\* C24: a tie-break request writes to elections, candidates, the snapshot or the decision log
\* only if the election's snapshot said tie and had no winner when the request came, and is
\* not answered with success otherwise
TieBreakOnlyOnOpenTie ==
  [][tb' # tb =>
        /\ TieWrites' # TieWrites => CameOnOpenTie
        /\ (Answered /\ ~CameOnOpenTie) => tb'.res # "ok"]_vars

\* an administrator's request with a valid action came while the stored snapshot was not tied
\* and has been refused, no election created and no Decision logged
RefusedOffTie ==
  /\ tb.pc = "done" /\ tb.res # "ok"
  /\ ForElection(tb.sent) /\ tb.sent.action \in TieActions
  /\ ~tb.openTie
  /\ \E x \in election_results : x.election_id = E /\ ~x.results_json.tie /\ x.winner_id # NULL
  /\ election_decisions = {}
  /\ Cardinality(elections) = 1

\* C25: a tie-break request on an open tie writes to elections, candidates, the snapshot or
\* the decision log only if every candidate id it supplied is in the snapshot's tied set, and
\* is not answered with success otherwise
TieBreakValidatesIds ==
  [][(tb' # tb /\ CameOnOpenTie
        /\ ~(SuppliedIds(Request) \subseteq TiedIds(election_results, E))) =>
        /\ TieWrites' = TieWrites
        /\ tb'.pc = "done" => tb'.res # "ok"]_vars

\* an administrator's request naming a candidate outside the tied set came on an open tie and
\* has been refused, the snapshot still without winner and nothing logged
RefusedOutsideTie ==
  /\ tb.pc = "done" /\ tb.res # "ok"
  /\ ForElection(tb.sent) /\ tb.sent.action \in TieActions
  /\ tb.openTie
  /\ SuppliedIds(tb.sent) \cap TiedIds(election_results, E) # {}
  /\ ~(SuppliedIds(tb.sent) \subseteq TiedIds(election_results, E))
  /\ \E x \in election_results : x.election_id = E /\ x.results_json.tie /\ x.winner_id = NULL
  /\ election_decisions = {}

\* C26: a random_draw or regulatory_decision request logs its Decision if and only if the
\* snapshot's winner is the decided candidate: at its last write the two go together, and a
\* request answered before that has logged nothing and left the snapshot as it was
DecisionTogetherWithWinner ==
  [][(tb' # tb /\ Request.action \in ResolvingActions) =>
        /\ tb.pc = "log" =>
             ((election_decisions' # election_decisions) <=>
                \E x \in election_results' : x.election_id = E /\ x.winner_id = tb.winnerId)
        /\ (Answered /\ tb.pc # "log") =>
             (election_decisions' = election_decisions /\ election_results' = election_results)]_vars

\* an administrator's random_draw or regulatory_decision for tied candidates came on an open
\* tie and has been answered: no Decision is logged and the snapshot has no winner
NeitherLoggedNorSet ==
  /\ tb.pc = "done"
  /\ ForElection(tb.sent) /\ tb.sent.action \in ResolvingActions
  /\ tb.openTie
  /\ SuppliedIds(tb.sent) \subseteq TiedIds(election_results, E)
  /\ \E x \in election_results : x.election_id = E /\ x.results_json.tie /\ x.winner_id = NULL
  /\ election_decisions = {}

\* the records a step appended to the decision log
Logged == election_decisions' \ election_decisions

NamedOf(rows, electionId, ids) == {c \in rows : c.election_id = electionId /\ c.id \in ids}

\* C27: an administrator's second_round request on an open tie leaves the snapshot as it is;
\* with at least two candidateIds it is answered with success, one election in draft status
\* then exists whose candidates are exactly the named candidates of the original election,
\* and one Decision of the original election carrying the new election's id is appended; with
\* fewer than two candidateIds it is refused and writes nothing
SecondRoundCreates ==
  [][(tb' # tb /\ ForElection(Request) /\ Request.action = "second_round" /\ CameOnOpenTie) =>
        /\ election_results' = election_results
        /\ Answered =>
             IF Len(Request.candidateIds) >= 2
               THEN /\ tb'.res = "ok"
                    /\ [id |-> tb'.newElectionId, status |-> "draft"] \in elections'
                    /\ {c.name : c \in {x \in candidates' : x.election_id = tb'.newElectionId}}
                         = {c.name : c \in NamedOf(candidates', E, SuppliedIds(Request))}
                    /\ Cardinality({x \in candidates' : x.election_id = tb'.newElectionId})
                         = Cardinality(NamedOf(candidates', E, SuppliedIds(Request)))
                    /\ Cardinality(Logged) = 1
                    /\ \A d \in Logged :
                         /\ d.election_id = E /\ d.decision_type = "second_round"
                         /\ d.payload.newElectionId = tb'.newElectionId
               ELSE /\ tb'.res # "ok"
                    /\ TieWrites' = TieWrites]_vars

\* C28: an administrator's random_draw request on an open tie with n >= 2 candidateIds is
\* answered with success, an index in 0..n-1 drawn, the snapshot's winner candidateIds[index]
\* and one Decision appended that carries the seed and that index; with fewer than two
\* candidateIds it is refused and writes nothing
RandomDrawSetsDrawn ==
  [][(tb' # tb /\ ForElection(Request) /\ Request.action = "random_draw" /\ CameOnOpenTie
        /\ Answered) =>
        IF Len(Request.candidateIds) >= 2
          THEN /\ tb'.res = "ok"
               /\ tb'.index \in 0..(Len(Request.candidateIds) - 1)
               /\ tb'.seed \in Seeds
               /\ \E x \in election_results' :
                    x.election_id = E /\ x.winner_id = Request.candidateIds[tb'.index + 1]
               /\ Cardinality(Logged) = 1
               /\ \A d \in Logged :
                    /\ d.election_id = E /\ d.decision_type = "random_draw"
                    /\ d.payload.index = tb'.index /\ d.payload.seed = tb'.seed
          ELSE /\ tb'.res # "ok"
               /\ TieWrites' = TieWrites]_vars

\* C29: an administrator's regulatory_decision request on an open tie with the
\* chosenCandidateId of a stored candidate is answered with success, the snapshot's winner
\* that candidate and one Decision naming it appended; without a chosenCandidateId or with an
\* id no candidate has it is refused and writes nothing
RegulatorySetsChosen ==
  [][(tb' # tb /\ ForElection(Request) /\ Request.action = "regulatory_decision"
        /\ CameOnOpenTie /\ Answered) =>
        IF /\ Request.chosenCandidateId # NULL
           /\ \E c \in candidates : c.id = Request.chosenCandidateId
          THEN /\ tb'.res = "ok"
               /\ \E x \in election_results' :
                    x.election_id = E /\ x.winner_id = Request.chosenCandidateId
               /\ Cardinality(Logged) = 1
               /\ \A d \in Logged :
                    /\ d.election_id = E /\ d.decision_type = "regulatory_decision"
                    /\ d.payload.winnerId = Request.chosenCandidateId
          ELSE /\ tb'.res # "ok"
               /\ TieWrites' = TieWrites]_vars

\* C31: proclaim is idempotent: the UPDATE of a proclaim request that finds the snapshot
\* already proclaimed leaves the stored row, proclaimed and proclaimed_at included, as it was
ProclaimIdempotent ==
  [][(proc.pc = "update" /\ proc'.pc = "after")
       => \A x \in election_results : x.proclaimed => x \in election_results']_vars

\* C32: the decision log is append-only: on every step of the tie-break, tally, proclaim and
\* election-deletion handlers every stored Decision row is still stored, with the same
\* election, type, payload and time
DecisionLogAppendOnly ==
  [][\A d \in election_decisions : d \in election_decisions']_vars

\* two decisions of the election are logged and outlive the election's deletion
DecisionsOutliveElection ==
  /\ Cardinality({d \in election_decisions : d.election_id = E}) = 2
  /\ ~(\E e \in elections : e.id = E)
  /\ del = "idle"

\* C33: a submission whose vault append is refused for a duplicate voteHash draws a new
\* fingerprint and appends again; the handler calls save() once, so a submission that answers
\* PersistenceError after a refusal for DuplicateHash has given up without that retry
DuplicateHashRetried ==
  [][\A r \in VoteReqs :
       (Returns(r) /\ vote'[r].res = "PersistenceError") => vote'[r].refused # "duplicate"]_vars

\* C34: decryptVote on the output of encryptVote(x, e) returns x when given the same election,
\* iv and authTag, and fails with CryptoError when any of the three differs
CipherRoundTrip ==
  cipher.pc = "opened" =>
    IF /\ cipher.given.electionId = cipher.electionId
       /\ cipher.given.iv = cipher.box.iv
       /\ cipher.given.authTag = cipher.box.authTag
      THEN cipher.res = cipher.voteData
      ELSE cipher.res = CryptoError

ValidActionReachesBranch ==
  [][(tb.pc = "idle" /\ tb'.pc # "idle" /\ tb'.sent.action \in TieActions
        /\ tb'.res \notin {"Forbidden", "IdInvalide"})
       => (tb'.pc = "table" /\ tb'.action = tb'.sent.action)]_vars

\* C37: submitVote reports the first failure that holds, in the order missing record, already
\* voted, election not active, candidate not of the election: the record check answers
\* Ineligible or AlreadyVoted whatever the election's status and the candidate are, and
\* ElectionNotActive and InvalidCandidate are answered only by the election check and the
\* candidate check that follow it, each when its own condition holds
ChecksInOrder ==
  [][\A r \in VoteReqs :
       LET found == SelectVotingRecord(voting_records, vote[r].voterId, E)
           active == SelectActiveElection(elections, E) # {}
           valid == SelectCandidate(candidates, vote[r].candidateId, E) # {}
       IN  /\ (vote[r].pc = "selRecord" /\ vote'[r] # vote[r]) =>
                /\ found = {} => (vote'[r].pc = "done" /\ vote'[r].res = "Ineligible")
                /\ (found # {} /\ HasVoted(voting_records, vote[r].voterId)) =>
                     (vote'[r].pc = "done" /\ vote'[r].res = "AlreadyVoted")
                /\ (found # {} /\ ~HasVoted(voting_records, vote[r].voterId)) =>
                     vote'[r].pc = "selElection"
           /\ (vote[r].pc = "selElection" /\ vote'[r] # vote[r]) =>
                IF active THEN vote'[r].pc = "selCandidate"
                ELSE vote'[r].pc = "done" /\ vote'[r].res = "ElectionNotActive"
           /\ (vote[r].pc = "selCandidate" /\ vote'[r] # vote[r]) =>
                IF valid THEN vote'[r].pc = "save"
                ELSE vote'[r].pc = "done" /\ vote'[r].res = "InvalidCandidate"
           /\ (Returns(r) /\ vote'[r].res = "ElectionNotActive") => vote[r].pc = "selElection"
           /\ (Returns(r) /\ vote'[r].res = "InvalidCandidate") => vote[r].pc = "selCandidate"]_vars

\* a voter who voted is answered AlreadyVoted and the election is no longer active
AlreadyVotedAfterClose ==
  \E r \in VoteReqs :
    /\ vote[r].pc = "done" /\ vote[r].res = "AlreadyVoted"
    /\ HasVoted(voting_records, vote[r].voterId)
    /\ SelectActiveElection(elections, E) = {}

\* C39: when the tally answers success, the stored snapshot of the election has the
\* totalVotes, results, tie and winner of the response
SuccessMeansPersisted ==
  [][(tally.pc = "upsert" /\ tally'.pc = "done" /\ tally'.res = "ok") =>
       \E x \in election_results', y \in UpsertResult({}, E, tally.out) :
         x.election_id = E /\ SnapshotContent(x) = SnapshotContent(y)]_vars

\* C40: in every state the vault holds at least as many ballots of the election as the ledger
\* has records of it marked has_voted
VaultCoversLedger == Cardinality(FindBallots(ballots, E)) >= CountVoted(voting_records, E)

\* whether a results list goes by votes descending and, among equal votes, by candidate id
\* ascending
SortedByVotesThenId(list) ==
  \A i, j \in 1..Len(list) :
    i < j =>
      /\ list[i].votes >= list[j].votes
      /\ list[i].votes = list[j].votes =>
           ParseInt(list[i].candidateId) <= ParseInt(list[j].candidateId)

\* C38: the results list the tally writes is sorted by votes descending with equal votes in
\* ascending candidate-id order, for every order in which the vault returns the ballots
ResultsSortedForEveryOrder ==
  (tally.pc = "upsert" /\ Cardinality(ballots) <= MaxOrdered) =>
    /\ SortedByVotesThenId(tally.out.results)
    /\ \A order \in Orders(ballots) :
         SortedByVotesThenId(TallyInOrder(order, candidates, E).results)

====
